---- MODULE Spec2Model ----
(***************************************************************************)
(* korgalore delivery pipeline: the pull cycle of cli.py (perform_pull,    *)
(* retry_all_failed_deliveries, deliver_commit) over one public-inbox feed *)
(* with its on-disk state (delivery cursor, failed and rejected ledgers,   *)
(* feed lock), the git enumeration and rebase recovery of pi_service.py,   *)
(* and a target mailbox.  Two processes run pull cycles concurrently.      *)
(*                                                                         *)
(* korgalore/pi_feed.py (class PIFeed) is not among the source files; the  *)
(* operators that stand for its methods follow spec.md sections 4.2, 4.6   *)
(* and the tests under src/tests, and are marked "PIFeed" below.           *)
(***************************************************************************)
EXTENDS Integers, Sequences, FiniteSets, TLC

\* ------------------------------------------------------------- bounds
MaxCommits == 3
MaxEpoch == 2
MaxRetryCount == 2
MaxRebase == 1

\* ---------------------------------------------------- program constants
\* PIFeed: RETRY_FAILED_INTERVAL, five days, here in days.
RETRY_FAILED_INTERVAL == 5
\* cli.py perform_pull: "We bail on a target if we have more than 5
\* consecutive failures".
MaxConsecutiveFailures == 5

Procs == {1, 2}
\* The names a delivery and a target can have in the configuration, in
\* the order of the configuration file.
Deliveries == {"d1", "d2"}
DeliveryOrder == <<"d1", "d2">>
Targets == {"t1", "t2"}
Addresses == {"troll"}
Epochs == 0..MaxEpoch

\* --------------------------------------------------------------- messages
\* A commit of an epoch repository carries one message.  m numbers the
\* messages of an epoch, g is the rewrite generation of the commit: the
\* pair stands for the commit hash.  date is the commit date, on the
\* upstream's clock.
Hash(c) == <<c.m, c.g>>
\* Replies share the subject line of their thread; Message-IDs are unique.
Subject(m) == m % 2
MsgId(m) == m
\* The From: header of message m.
FromHeader(m) == IF m % 2 = 0 THEN "Troll <TROLL@example.com>" ELSE "Dev <dev@example.com>"

\* extract_email_address without lower(): the address as it is written.
extract_email_address_as_written(from_header) ==
    IF from_header = "Troll <TROLL@example.com>" THEN "TROLL"
    ELSE IF from_header = "Dev <dev@example.com>" THEN "dev"
    ELSE "none"

\* bozofilter.py extract_email_address: parseaddr, then lower().
extract_email_address(from_header) ==
    IF from_header = "Troll <TROLL@example.com>" THEN "troll"
    ELSE IF from_header = "Dev <dev@example.com>" THEN "dev"
    ELSE "none"

\* bozofilter.py is_bozofied.
is_bozofied(from_header, bozo_set) ==
    IF bozo_set = {} THEN FALSE
    ELSE LET addr == extract_email_address(from_header)
         IN  addr # "none" /\ addr \in bozo_set

\* ------------------------------------------------------------ sequences
RECURSIVE Concat(_, _)
Concat(f, order) ==
    IF order = <<>> THEN <<>> ELSE f[Head(order)] \o Concat(f, Tail(order))

SeqToSet(s) == {s[i] : i \in 1..Len(s)}

\* Index of the commit with hash h in repository r, 0 when absent.
Pos(r, h) ==
    IF \E i \in 1..Len(r) : Hash(r[i]) = h
    THEN CHOOSE i \in 1..Len(r) : Hash(r[i]) = h
    ELSE 0

\* The commits of r after position i, oldest first.
After(r, i) == SubSeq(r, i + 1, Len(r))

Hashes(s) == [i \in 1..Len(s) |-> Hash(s[i])]

Reverse(s) == [i \in 1..Len(s) |-> s[Len(s) + 1 - i]]

\* ------------------------------------------------- pi_service.py (git)
\* The info record update_korgalore_info writes for commit c:
\* last, subject, msgid, commit_date.
update_korgalore_info(c) ==
    [last |-> Hash(c), subject |-> Subject(c.m), msgid |-> MsgId(c.m), date |-> c.date]

\* get_top_commit: rev-list -n 1 <branch>.
get_top_commit(r) == r[Len(r)]

\* get_all_commits_in_epoch that misses the root commit of the branch.
get_all_commits_in_epoch_after_root(r) == Hashes(After(r, 1))

\* get_all_commits_in_epoch: rev-list --reverse <branch>.
get_all_commits_in_epoch(r) == Hashes(r)

\* "cat-file -e <since_commit>^": the parent of the commit resolves.
ParentResolves(r, h) == Pos(r, h) > 1

\* rev-list --reverse --since-as-filter <commit_date> <branch>.
RevListSince(r, date) == SelectSeq(r, LAMBDA c : c.date >= date)

\* recover_after_rebase that matches on the subject alone.
recover_after_rebase_subject_only(r, inf) ==
    LET possible_commits == RevListSince(r, inf.date)
        matching == {i \in 1..Len(possible_commits) :
                        Subject(possible_commits[i].m) = inf.subject}
    IN  IF possible_commits = <<>>
        THEN update_korgalore_info(get_top_commit(r))
        ELSE IF matching # {}
        THEN update_korgalore_info(
                 possible_commits[CHOOSE i \in matching : \A j \in matching : i <= j])
        ELSE update_korgalore_info(possible_commits[1])

\* recover_after_rebase: the info record it leaves in the state file; its
\* "last" is the commit the enumeration resumes from.
recover_after_rebase(r, inf) ==
    LET possible_commits == RevListSince(r, inf.date)
        matching == {i \in 1..Len(possible_commits) :
                        /\ Subject(possible_commits[i].m) = inf.subject
                        /\ MsgId(possible_commits[i].m) = inf.msgid}
    IN  IF possible_commits = <<>>
        THEN update_korgalore_info(get_top_commit(r))
        ELSE IF matching # {}
        THEN update_korgalore_info(
                 possible_commits[CHOOSE i \in matching : \A j \in matching : i <= j])
        ELSE update_korgalore_info(possible_commits[1])

\* get_latest_commits_in_epoch with rev-list without --reverse: newest first.
get_latest_commits_in_epoch_newest_first(r, inf) ==
    LET since == IF ParentResolves(r, inf.last) THEN inf
                 ELSE recover_after_rebase(r, inf)
    IN  [info |-> since, commits |-> Reverse(Hashes(After(r, Pos(r, since.last))))]

\* get_latest_commits_in_epoch: the info record left in the state file and
\* the new commits, "rev-list --reverse --ancestry-path <since>..<branch>".
get_latest_commits_in_epoch(r, inf) ==
    LET since == IF ParentResolves(r, inf.last) THEN inf
                 ELSE recover_after_rebase(r, inf)
    IN  [info |-> since, commits |-> Hashes(After(r, Pos(r, since.last)))]

\* ------------------------------------------------------------------ state
VARIABLES
    deliveries,   \* ctx.obj['deliveries']: delivery name -> target name
    now,          \* wall clock, in days
    bozofilter,   \* ctx.obj['bozofilter']: the addresses to skip
    epochs,       \* the epoch directories git/<n>.git of the feed
    repo,         \* repo[e]: the commits of epoch e on its default branch
    gen,          \* how many times upstream rewrote history
    info,         \* korgalore.<delivery>.info: info[d][e], the cursor
    failed,       \* korgalore.<delivery>.failed: the failed ledger
    rejected,     \* korgalore.<delivery>.rejected: the rejected ledger
    lockHolders,  \* the processes holding the lock on korgalore.lock
    delivered,    \* <<d, e, h>> the target imported at least once
    dups,         \* <<d, e, h>> the target imported more than once
    bozoSkipped,  \* <<d, e, h>> skipped because of the bozofilter
    pc,           \* where each process is in perform_pull
    retryList,    \* retry_all_failed_deliveries' retry_list
    runList,      \* perform_pull's run_list of the target
    byTarget,     \* perform_pull's by_target: the targets still to process
    initialized,  \* update_all_feeds' initialized_feeds: the feed is in it
    consec,       \* perform_pull's consecutive_failures
    attemptLog,   \* the attempts of the delivery loop of this cycle, with results
    imap,         \* ImapTarget.imap: the connection, or None
    folder,       \* the IMAP folder: Message-ID -> the copies it holds
    op,           \* the call a target or a RawMessage receives
    result,       \* what the call returned or raised
    sent,         \* the bytes the call produced or transmitted, if any
    session,      \* korgalore._REQSESSION of each process: open, or None
    targets,      \* ctx.obj['targets'] of each process: the cached targets
    feeds,        \* ctx.obj['feeds'] of each process: feed key -> instance
    tokenFile,    \* the OAuth2 token file of an IMAP target
    manifest,     \* tracking.json: track_id -> the tracked thread
    tracker,      \* ctx.obj['tracking_manifest'] of each process
    dmap,         \* ctx.obj['deliveries'] of each process: the tracked threads in it
    configFile,   \* korgalore.toml: the feeds of its deliveries, in its order
    feedOrder,    \* the keys of ctx.obj['feeds'] of each process, in insertion order
    locked,       \* korgalore.lock of each feed directory: the process holding it, or 0
    is_syncing,   \* KorgaloreApp.is_syncing
    syncThread    \* the threads of the GUI that call run_sync: where each is

disk == <<info, failed, rejected, epochs, repo>>
local == <<pc, retryList, runList, byTarget, initialized, consec, attemptLog>>
wire == <<imap, folder, op, result, sent>>
ctx == <<session, targets, feeds>>
tracking == <<manifest, tracker, dmap>>
locks == <<configFile, feedOrder, locked>>
gui == <<is_syncing, syncThread>>
env == <<deliveries, now, bozofilter, gen, wire, tokenFile, tracking, locks, gui, locks, gui>>
target == <<delivered, dups, bozoSkipped>>
vars == <<deliveries, now, bozofilter, epochs, repo, gen, info, failed, rejected,
          lockHolders, delivered, dups, bozoSkipped, pc, retryList, runList, byTarget,
          initialized, consec, attemptLog, imap, folder, op, result, sent,
          session, targets, feeds, tokenFile, manifest, tracker, dmap,
          configFile, feedOrder, locked, is_syncing, syncThread>>

\* ------------------------------------------------ messages on the wire
\* Bytes are sequences of tokens. A token is a run of bytes that holds no
\* space and no line end, with its length, or one of CR, LF, SP.
Word(text, n) == [text |-> text, len |-> n]
CR == Word("\\r", 1)
LF == Word("\\n", 1)
SP == Word(" ", 1)
\* None, where a str or a bytes is optional.
None == <<Word("None", 0)>>

\* len(b)
RECURSIVE len(_)
len(b) == IF b = <<>> THEN 0 ELSE Head(b).len + len(Tail(b))

\* b.replace(b'\r\n', b'\n')
RECURSIVE CollapseCRLF(_)
CollapseCRLF(b) ==
    IF b = <<>> THEN <<>>
    ELSE IF Len(b) >= 2 /\ b[1] = CR /\ b[2] = LF
         THEN <<LF>> \o CollapseCRLF(Tail(Tail(b)))
         ELSE <<Head(b)>> \o CollapseCRLF(Tail(b))

\* b.replace(b'\n', b'\r\n')
RECURSIVE ExpandLF(_)
ExpandLF(b) ==
    IF b = <<>> THEN <<>>
    ELSE IF Head(b) = LF THEN <<CR, LF>> \o ExpandLF(Tail(b))
         ELSE <<Head(b)>> \o ExpandLF(Tail(b))

\* b.find(b'\n\n'): the position of the first of the two LF, 0 for -1.
find_boundary(b) ==
    LET at == {i \in 1..(Len(b) - 1) : b[i] = LF /\ b[i + 1] = LF}
    IN  IF at = {} THEN 0 ELSE CHOOSE i \in at : \A j \in at : i <= j

\* s.split(sep): the pieces of s between the tokens sep.
RECURSIVE split(_, _)
split(s, sep) ==
    LET at == {i \in 1..Len(s) : s[i] = sep}
    IN  IF at = {} THEN <<s>>
        ELSE LET i == CHOOSE k \in at : \A j \in at : k <= j
             IN  <<SubSeq(s, 1, i - 1)>> \o split(SubSeq(s, i + 1, Len(s)), sep)

\* sep.join(lines)
RECURSIVE join(_, _)
join(lines, sep) ==
    IF lines = <<>> THEN <<>>
    ELSE IF Len(lines) = 1 THEN lines[1]
    ELSE lines[1] \o <<sep>> \o join(Tail(lines), sep)

\* The loop of _wrap_header over the words left: lines are the lines
\* closed so far, current_line the one being filled.
RECURSIVE wrap_words(_, _, _, _)
wrap_words(words, lines, current_line, max_line) ==
    IF words = <<>> THEN Append(lines, current_line)
    ELSE LET word == Head(words)
             test_line == current_line \o <<SP>> \o word
         IN  IF len(test_line) <= max_line
             THEN wrap_words(Tail(words), lines, test_line, max_line)
             ELSE wrap_words(Tail(words), Append(lines, current_line),
                             <<SP>> \o word, max_line)

\* RawMessage._wrap_header(name, value, max_line)
Colon == Word(":", 1)
MaxLine == 75
_wrap_header(name, value, max_line) ==
    LET first_line_max == max_line - len(name) - 2
    IN  IF len(value) <= first_line_max
        THEN name \o <<Colon, SP>> \o value
        ELSE join(wrap_words(split(value, SP), <<>>, name \o <<Colon>>, max_line), LF)

\* email.utils.formatdate(localtime=True), e.g.
\* "Tue, 03 Nov 2026 10:00:00 -0500": the widths of its fields are fixed.
date_str ==
    <<Word("Tue,", 4), SP, Word("03", 2), SP, Word("Nov", 3), SP,
      Word("2026", 4), SP, Word("10:00:00", 8), SP, Word("-0500", 5)>>

\* f"v{__version__};" with __version__ = "0.5"
version == Word("v0.5;", 5)

TraceName == <<Word("X-Korgalore-Trace", 17)>>

\* The trace_value of _inject_trace_header.
trace_value(feed_name, delivery_name) ==
    <<Word("from", 4), SP, Word("feed=", 5)>> \o feed_name
        \o <<SP, Word("for", 3), SP, Word("delivery=", 9)>> \o delivery_name
        \o <<Word(";", 1), SP, version, SP>> \o date_str

\* RawMessage._inject_trace_header(message, feed_name, delivery_name)
_inject_trace_header(message, feed_name, delivery_name) ==
    LET trace_bytes ==
            _wrap_header(TraceName, trace_value(feed_name, delivery_name), MaxLine)
                \o <<LF>>
        boundary == find_boundary(message)
    IN  IF boundary = 0 THEN message \o trace_bytes
        ELSE SubSeq(message, 1, boundary) \o trace_bytes
                \o SubSeq(message, boundary + 1, Len(message))

\* RawMessage.as_bytes(feed_name, delivery_name)
as_bytes(raw, feed_name, delivery_name) ==
    LET normalized == CollapseCRLF(raw)
        traced == IF feed_name # None /\ delivery_name # None
                  THEN _inject_trace_header(normalized, feed_name, delivery_name)
                  ELSE normalized
    IN  ExpandLF(traced)

\* RawMessage.message_id: the value of the Message-ID header, or None.
MessageIdHeader == Word("Message-ID:", 11)
message_id(raw) ==
    LET b == CollapseCRLF(raw)
        stop == IF find_boundary(b) = 0 THEN Len(b) ELSE find_boundary(b)
        at == {i \in 1..(stop - 2) :
                  /\ b[i] = MessageIdHeader
                  /\ (i = 1 \/ b[i - 1] = LF)
                  /\ b[i + 1] = SP}
    IN  IF at = {} THEN None
        ELSE <<b[(CHOOSE i \in at : \A j \in at : i <= j) + 2]>>

\* The Message-IDs of the messages of the feed; NoId is a message without
\* the header.
MessageIds == {"<m1>", "<m2>"}
NoId == "None"

\* A message as git stores it (LF line ends), and as a mail server hands
\* it out (CRLF line ends).
RawLF(id) ==
    <<Word("From:", 5), SP, Word("a@x", 3), LF>>
        \o (IF id = NoId THEN <<>> ELSE <<MessageIdHeader, SP, Word(id, 4), LF>>)
        \o <<Word("Subject:", 8), SP, Word("Test", 4), LF, LF, Word("Body", 4), LF>>
RawMessages == {RawLF(id) : id \in MessageIds \cup {NoId}}
                  \cup {ExpandLF(RawLF(id)) : id \in MessageIds}

\* The key of a message in the folder.
FolderKey(raw) == IF message_id(raw) = None THEN NoId ELSE message_id(raw)[1].text

\* What the IMAP server answers to SELECT, SEARCH and APPEND: OK, NO, or
\* the connection breaks (imaplib.IMAP4.error).
Replies == {"OK", "NO", "error"}
ImapReplies == [select : Replies, search : Replies, append : Replies]
AllOK == [select |-> "OK", search |-> "OK", append |-> "OK"]

\* No target was called yet.
NoCall == [name |-> "None", kind |-> "None", raw |-> <<>>, feed_name |-> None,
           delivery_name |-> None, reply |-> AllOK]
TargetsUnused ==
    /\ imap = "None"
    /\ folder = [i \in MessageIds \cup {NoId} |-> 0]
    /\ op = NoCall
    /\ result = "None"
    /\ sent = <<>>

\* An empty ctx.obj['feeds'], and a manifest without threads.
NoFeeds == [k \in {} |-> 0]
NoThreads == [t \in {} |-> 0]

\* ctx.obj without 'tracking_manifest'.
NotLoaded == [loaded |-> FALSE, threads |-> NoThreads]

\* A process that starts: no HTTP session, nothing in ctx.obj.
Fresh(p) ==
    /\ ~session[p]
    /\ targets[p] = {}
    /\ feeds[p] = NoFeeds
    /\ tracker[p] = NotLoaded
    /\ dmap[p] = {}

\* The token file does not exist.
NoFile == [token |-> "None", written |-> 0, mode |-> {}]

\* No process ran a command yet.
FreshProcesses ==
    /\ session = [p \in Procs |-> FALSE]
    /\ targets = [p \in Procs |-> {}]
    /\ feeds = [p \in Procs |-> NoFeeds]

\* No thread is tracked.
NoTrackedThreads ==
    /\ manifest = NoThreads
    /\ tracker = [p \in Procs |-> NotLoaded]
    /\ dmap = [p \in Procs |-> {}]

\* The feeds of the configured deliveries, in the order of korgalore.toml.
ConfiguredFeeds == <<"f1", "f2", "f3">>

\* No feed directory is locked, and the GUI runs no sync.
Unlocked ==
    /\ configFile = ConfiguredFeeds
    /\ feedOrder = [p \in Procs |-> <<>>]
    /\ locked = [k \in SeqToSet(ConfiguredFeeds) |-> 0]
    /\ is_syncing = FALSE
    /\ syncThread = [t \in {"background_worker", "on_sync_now"} |-> "idle"]

\* No process ran a command yet, there is no token file, no thread is
\* tracked and no feed directory is locked.
Elsewhere ==
    /\ FreshProcesses
    /\ tokenFile = NoFile
    /\ NoTrackedThreads
    /\ Unlocked

NoInfo == [last |-> <<0, 0>>, subject |-> 0, msgid |-> 0, date |-> 0]

\* The first commit of epoch 0, already in the clone when the delivery was
\* added: the delivery state starts at the tip.
FirstCommit == [m |-> 1, g |-> 0, date |-> 0]

\* ------------------------------------------------------------------ PIFeed
\* find_epochs / get_highest_epoch.
get_highest_epoch(eps) == CHOOSE e \in eps : \A f \in eps : f <= e

\* The epochs the delivery state file has an entry for.
KnownEpochs(dinfo) == {e \in Epochs : dinfo[e] # NoInfo}

\* The delivery state of a delivery initialized at the tip of the highest
\* epoch ("from here on").
TipInitialized(dinfo, eps, rp) ==
    LET top == get_highest_epoch(eps)
    IN  [dinfo EXCEPT ![top] = update_korgalore_info(get_top_commit(rp[top]))]

\* PIFeed.get_latest_commits_for_delivery: the info left in the state file
\* and the (epoch, commit) pairs: the new commits of the highest epoch the
\* delivery knows, then all commits of a higher highest epoch.  A delivery
\* without a state file is new on the feed: its state is initialized at
\* the tip and it has no commits to deliver.
get_latest_commits_for_delivery(dinfo, eps, rp) ==
    IF KnownEpochs(dinfo) = {}
    THEN [info |-> TipInitialized(dinfo, eps, rp), commits |-> <<>>]
    ELSE
    LET known == get_highest_epoch(KnownEpochs(dinfo))
        top == get_highest_epoch(eps)
        res == get_latest_commits_in_epoch(rp[known], dinfo[known])
        old == [i \in 1..Len(res.commits) |-> <<known, res.commits[i]>>]
        all == get_all_commits_in_epoch(rp[top])
        new == IF top > known THEN [i \in 1..Len(all) |-> <<top, all[i]>>] ELSE <<>>
    IN  [info |-> [dinfo EXCEPT ![known] = res.info], commits |-> old \o new]

\* PIFeed.save_delivery_info(delivery, epoch, latest_commit, message).
\* A commit that is no longer in the repository cannot be described
\* (git show fails): nothing is written.
save_delivery_info(dinfo, rp, e, h) ==
    IF Pos(rp[e], h) = 0 THEN dinfo
    ELSE [dinfo EXCEPT ![e] = update_korgalore_info(rp[e][Pos(rp[e], h)])]

\* The index of the entry of (e, h) in a failed ledger, 0 when absent.
EntryPos(fl, e, h) ==
    IF \E i \in 1..Len(fl) : fl[i].epoch = e /\ fl[i].commit = h
    THEN CHOOSE i \in 1..Len(fl) : fl[i].epoch = e /\ fl[i].commit = h
    ELSE 0

RemoveAt(s, i) == SubSeq(s, 1, i - 1) \o SubSeq(s, i + 1, Len(s))

\* PIFeed.mark_failed_delivery: the failed and the rejected ledger after
\* a failure of (e, h) at time t.
mark_failed_delivery(fl, rj, e, h, t) ==
    LET i == EntryPos(fl, e, h)
    IN  IF i = 0
        THEN [failed |-> Append(fl, [epoch |-> e, commit |-> h, first |-> t, count |-> 1]),
              rejected |-> rj]
        ELSE IF t - fl[i].first > RETRY_FAILED_INTERVAL
        THEN [failed |-> RemoveAt(fl, i), rejected |-> Append(rj, <<e, h>>)]
        ELSE [failed |-> [fl EXCEPT ![i].count = @ + 1], rejected |-> rj]

\* mark_successful_delivery that empties the failed ledger of the delivery.
mark_successful_delivery_clears(dinfo, fl, rp, e, h, was_failing) ==
    [info |-> save_delivery_info(dinfo, rp, e, h),
     failed |-> IF was_failing THEN <<>> ELSE fl]

\* PIFeed.mark_successful_delivery: the delivery state is updated to the
\* commit; with was_failing the entry of (e, h) leaves the failed ledger
\* (the file is removed when no entry is left: the empty sequence).
mark_successful_delivery(dinfo, fl, rp, e, h, was_failing) ==
    [info |-> save_delivery_info(dinfo, rp, e, h),
     failed |-> IF was_failing /\ EntryPos(fl, e, h) # 0
                THEN RemoveAt(fl, EntryPos(fl, e, h))
                ELSE fl]

\* PIFeed.get_failed_commits_for_delivery.
get_failed_commits_for_delivery(fl, d) ==
    [i \in 1..Len(fl) |-> [d |-> d, epoch |-> fl[i].epoch, commit |-> fl[i].commit]]

\* PIFeed.feed_lock: an exclusive advisory lock; a process that cannot
\* acquire it waits.
feed_lock(p) ==
    /\ lockHolders = {}
    /\ lockHolders' = {p}

\* PIFeed.feed_unlock.
feed_unlock(p) == lockHolders' = lockHolders \ {p}

\* ------------------------------------------------------------------- Init
Configured ==
    /\ deliveries = [d \in {"d1"} |-> "t1"]
    /\ now = 0
    /\ bozofilter = {}
    /\ epochs = {0}
    /\ repo = [e \in Epochs |-> IF e = 0 THEN <<FirstCommit>> ELSE <<>>]
    /\ gen = 0
    /\ info = [d \in Deliveries |->
                 [e \in Epochs |-> IF e = 0 /\ d = "d1"
                                   THEN update_korgalore_info(FirstCommit)
                                   ELSE NoInfo]]
    /\ failed = [d \in Deliveries |-> <<>>]
    /\ rejected = [d \in Deliveries |-> <<>>]
    /\ lockHolders = {}
    /\ delivered = {}
    /\ dups = {}
    /\ bozoSkipped = {}
    /\ pc = [p \in Procs |-> "idle"]
    /\ retryList = [p \in Procs |-> <<>>]
    /\ runList = [p \in Procs |-> <<>>]
    /\ byTarget = [p \in Procs |-> <<>>]
    /\ initialized = [p \in Procs |-> FALSE]
    /\ consec = [p \in Procs |-> 0]
    /\ attemptLog = [p \in Procs |-> <<>>]

Init == TargetsUnused /\ Elsewhere /\ Configured

\* ------------------------------------------------------- cli.py deliver_commit
\* What one call of deliver_commit can meet:
\*   "nomsg"  feed.get_message_at_commit raises (no m file, git error);
\*   "bozo"   the From: address is in the bozofilter;
\*   "fail"   target.connect or target.import_message raises;
\*   "ok"     the target imports the message.
\* A commit that left the repository has no message.  A failure is counted
\* at most MaxRetryCount times per entry.  kinds: the failures that can
\* happen.
Outcomes(d, e, h, kinds) ==
    LET i == EntryPos(failed[d], e, h)
        canFail == \/ i = 0
                   \/ failed[d][i].count < MaxRetryCount
                   \/ now - failed[d][i].first > RETRY_FAILED_INTERVAL
        failing == IF canFail THEN kinds ELSE {}
    IN  IF Pos(repo[e], h) = 0 THEN failing \cap {"nomsg"}
        ELSE IF is_bozofied(FromHeader(h[1]), bozofilter)
        THEN failing \cup {"bozo"}
        ELSE failing \cup {"ok"}

\* The target's import_message (maildir_target.py: Maildir.add): one more
\* copy of the message in the mailbox.
import_message(d, e, h) ==
    /\ delivered' = delivered \cup {<<d, e, h>>}
    /\ dups' = IF <<d, e, h>> \in delivered THEN dups \cup {<<d, e, h>>} ELSE dups

\* deliver_commit whose except branch does not call mark_failed_delivery.
deliver_commit_unmarked(d, e, h, was_failing, o) ==
    LET ok == mark_successful_delivery(info[d], failed[d], repo, e, h, was_failing)
    IN  CASE o = "bozo" ->
                /\ info' = [info EXCEPT ![d] = ok.info]
                /\ failed' = [failed EXCEPT ![d] = ok.failed]
                /\ bozoSkipped' = bozoSkipped \cup {<<d, e, h>>}
                /\ UNCHANGED <<rejected, delivered, dups>>
          [] o = "ok" ->
                /\ import_message(d, e, h)
                /\ info' = [info EXCEPT ![d] = ok.info]
                /\ failed' = [failed EXCEPT ![d] = ok.failed]
                /\ UNCHANGED <<rejected, bozoSkipped>>
          [] o \in {"fail", "auth"} ->
                /\ info' = IF ~was_failing
                           THEN [info EXCEPT ![d] = save_delivery_info(info[d], repo, e, h)]
                           ELSE info
                /\ UNCHANGED <<failed, rejected, delivered, dups, bozoSkipped>>
          [] o = "nomsg" ->
                /\ UNCHANGED <<info, failed, rejected, delivered, dups, bozoSkipped>>

\* deliver_commit(delivery_name, target, feed, epoch, commit, labels,
\* was_failing, bozofilter) meeting outcome o.
deliver_commit(d, e, h, was_failing, o) ==
    LET ok == mark_successful_delivery(info[d], failed[d], repo, e, h, was_failing)
        ko == mark_failed_delivery(failed[d], rejected[d], e, h, now)
    IN  CASE o = "bozo" ->
                /\ info' = [info EXCEPT ![d] = ok.info]
                /\ failed' = [failed EXCEPT ![d] = ok.failed]
                /\ bozoSkipped' = bozoSkipped \cup {<<d, e, h>>}
                /\ UNCHANGED <<rejected, delivered, dups>>
          [] o = "ok" ->
                /\ import_message(d, e, h)
                /\ info' = [info EXCEPT ![d] = ok.info]
                /\ failed' = [failed EXCEPT ![d] = ok.failed]
                /\ UNCHANGED <<rejected, bozoSkipped>>
          [] o \in {"fail", "auth"} ->
                /\ failed' = [failed EXCEPT ![d] = ko.failed]
                /\ rejected' = [rejected EXCEPT ![d] = ko.rejected]
                /\ info' = IF ~was_failing
                           THEN [info EXCEPT ![d] = save_delivery_info(info[d], repo, e, h)]
                           ELSE info
                /\ UNCHANGED <<delivered, dups, bozoSkipped>>
          [] o = "nomsg" ->
                /\ failed' = [failed EXCEPT ![d] = ko.failed]
                /\ rejected' = [rejected EXCEPT ![d] = ko.rejected]
                /\ UNCHANGED <<info, delivered, dups, bozoSkipped>>

\* The value deliver_commit returns: the Message-ID, SKIPPED_BOZOFILTER or
\* None.
deliver_result(o) ==
    IF o = "ok" THEN "msgid" ELSE IF o = "bozo" THEN "SKIPPED_BOZOFILTER" ELSE "None"

\* ------------------------------------------------------------ the upstream
\* What update_feed can find upstream, as the repositories after the fetch.
NextMsg(r) == IF r = <<>> THEN 1
              ELSE 1 + (CHOOSE m \in {r[i].m : i \in 1..Len(r)} :
                            \A j \in 1..Len(r) : r[j].m <= m)

RECURSIVE NewCommits(_, _, _)
NewCommits(first, k, g) ==
    IF k = 0 THEN <<>>
    ELSE <<[m |-> first, g |-> g, date |-> first]>> \o NewCommits(first + 1, k - 1, g)

RECURSIVE Total(_, _)
Total(rp, eps) ==
    IF eps = {} THEN 0
    ELSE LET e == CHOOSE x \in eps : TRUE IN Len(rp[e]) + Total(rp, eps \ {e})

\* How many more commits the feed can take.
Room == MaxCommits - Total(repo, Epochs)

\* New commits on the highest epoch.
Appended ==
    LET top == get_highest_epoch(epochs)
    IN  {[epochs |-> epochs,
          repo |-> [repo EXCEPT ![top] = @ \o NewCommits(NextMsg(@), k, gen)],
          gen |-> gen] : k \in 1..Room}

\* The first update_feed of a feed that has no on-disk state yet clones
\* epoch 0 with the commits upstream has.
Cloned ==
    {[epochs |-> {0},
      repo |-> [repo EXCEPT ![0] = NewCommits(1, k, gen)],
      gen |-> gen] : k \in 1..(MaxCommits - 1)}

\* Epoch rollover: a higher epoch appears, with the commits it already has.
RolledOver ==
    {[epochs |-> epochs \cup {ne},
      repo |-> [repo EXCEPT ![ne] = NewCommits(1, k, gen)],
      gen |-> gen] :
        ne \in {e \in Epochs : e > get_highest_epoch(epochs)}, k \in 0..Room}

\* Upstream rewrote the history of epoch e from position k on: the
\* commits get new hashes and the commit date dt, earlier or later than
\* every other commit date.  x is the epoch, k, and
\* the first old commit that is kept: k, or k + 1 when the commit at k is
\* dropped.
Rewritten ==
    IF gen >= MaxRebase THEN {}
    ELSE {[epochs |-> epochs,
           repo |-> [repo EXCEPT ![x[1]] =
                        LET old == repo[x[1]]
                        IN  SubSeq(old, 1, x[2] - 1) \o
                            [i \in 1..(Len(old) - x[3] + 1) |->
                                [m |-> old[i + x[3] - 1].m, g |-> gen + 1, date |-> dt]]],
           gen |-> gen + 1] :
             x \in {y \in epochs \X (1..MaxCommits) \X (1..(MaxCommits + 1)) :
                       y[3] \in {y[2], y[2] + 1} /\ y[3] <= Len(repo[y[1]])},
             dt \in {0, MaxCommits + 1}}

\* ------------------------------------------------------ cli.py perform_pull
Item(d, pair) == [d |-> d, epoch |-> pair[1], commit |-> pair[2]]

\* The key of the feed of the deliveries, after normalize_feed_key.
FeedKey == "lkml"

\* get_feed_for_delivery: the instance ctx.obj['feeds'] holds for the key,
\* or a new LoreFeed, made with get_requests_session(), which opens the
\* shared session.
get_feed_for_delivery(p) ==
    IF FeedKey \in DOMAIN feeds[p]
    THEN UNCHANGED <<feeds, session>>
    ELSE /\ feeds' = [feeds EXCEPT ![p] = [k \in {FeedKey} |-> 0]]
         /\ session' = [session EXCEPT ![p] = TRUE]

\* map_deliveries: the feed and the target of every delivery, the target
\* from get_target, which keeps it in ctx.obj['targets'].
map_deliveries(p) ==
    /\ get_feed_for_delivery(p)
    /\ targets' = [targets EXCEPT ![p] = @ \cup {deliveries[d] : d \in DOMAIN deliveries}]

\* The pull command, or the GUI's run_sync, calls perform_pull: the
\* configuration is loaded and the deliveries are mapped.
StartPull(p) ==
    /\ pc[p] = "idle"
    /\ map_deliveries(p)
    /\ pc' = [pc EXCEPT ![p] = "lock_all_feeds"]
    /\ UNCHANGED <<disk, env, target, lockHolders, retryList, runList, byTarget, consec, initialized, attemptLog>>

\* lock_all_feeds over an empty ctx.obj['feeds']: no feed is locked.
lock_all_feeds_no_feed(p) ==
    /\ pc[p] = "lock_all_feeds"
    /\ pc' = [pc EXCEPT ![p] = "retry_all_failed_deliveries"]
    /\ UNCHANGED <<disk, env, ctx, target, lockHolders, retryList, runList, byTarget, consec, initialized, attemptLog>>

\* lock_all_feeds(ctx).
lock_all_feeds(p) ==
    /\ pc[p] = "lock_all_feeds"
    /\ feed_lock(p)
    /\ pc' = [pc EXCEPT ![p] = "retry_all_failed_deliveries"]
    /\ UNCHANGED <<disk, env, ctx, target, retryList, runList, byTarget, consec, initialized, attemptLog>>

\* retry_all_failed_deliveries that retries nothing.
retry_all_failed_deliveries_none(p) ==
    /\ pc[p] = "retry_all_failed_deliveries"
    /\ pc' = [pc EXCEPT ![p] = "update_all_feeds"]
    /\ UNCHANGED <<disk, env, ctx, target, lockHolders, retryList, runList, byTarget, consec,
                   initialized, attemptLog>>

\* retry_all_failed_deliveries(ctx), building retry_list.
retry_all_failed_deliveries(p) ==
    /\ pc[p] = "retry_all_failed_deliveries"
    /\ LET lists == [d \in Deliveries |->
                        IF d \in DOMAIN deliveries
                        THEN get_failed_commits_for_delivery(failed[d], d)
                        ELSE <<>>]
           retry_list == Concat(lists, DeliveryOrder)
       IN  /\ retryList' = [retryList EXCEPT ![p] = retry_list]
           /\ pc' = [pc EXCEPT ![p] = IF retry_list = <<>> THEN "update_all_feeds"
                                      ELSE "retrying"]
    /\ UNCHANGED <<disk, env, ctx, target, lockHolders, runList, byTarget, consec, initialized, attemptLog>>

\* One iteration of the loop of retry_all_failed_deliveries:
\* deliver_commit(..., was_failing=True).
RetryStep(p, kinds) ==
    /\ pc[p] = "retrying"
    /\ LET it == Head(retryList[p])
       IN  \E o \in Outcomes(it.d, it.epoch, it.commit, kinds) :
               deliver_commit(it.d, it.epoch, it.commit, TRUE, o)
    /\ retryList' = [retryList EXCEPT ![p] = Tail(@)]
    /\ pc' = [pc EXCEPT ![p] = IF Tail(retryList[p]) = <<>> THEN "update_all_feeds"
                               ELSE "retrying"]
    /\ UNCHANGED <<epochs, repo, env, ctx, lockHolders, runList, byTarget, consec, initialized, attemptLog>>

\* perform_pull's by_target: the targets of the deliveries to run, each
\* once, in the order in which the deliveries name them.
RECURSIVE by_target(_, _)
by_target(run_deliveries, order) ==
    IF order = <<>> THEN <<>>
    ELSE LET rest == by_target(run_deliveries, Tail(order))
         IN  IF Head(order) \notin DOMAIN run_deliveries THEN rest
             ELSE <<run_deliveries[Head(order)]>>
                  \o SelectSeq(rest, LAMBDA t : t # run_deliveries[Head(order)])

\* The loop over by_target goes on to the next target, or ends.
NextTarget(p) ==
    /\ byTarget' = [byTarget EXCEPT ![p] = Tail(@)]
    /\ pc' = [pc EXCEPT ![p] = IF Tail(byTarget[p]) = <<>> THEN "unlock_all_feeds"
                               ELSE "enumerate"]

\* perform_pull that runs the retry pass after the feed update.
AfterUpdate_then_retry(p, force, updated) ==
    /\ pc' = [pc EXCEPT ![p] = IF updated THEN "retry_all_failed_deliveries" ELSE "enumerate"]
    /\ byTarget' = [byTarget EXCEPT ![p] = by_target(deliveries, DeliveryOrder)]
    /\ UNCHANGED <<lockHolders, initialized>>

\* perform_pull after the feed update, given whether the feed was updated:
\* without deliveries to run it unlocks and returns.
AfterUpdate(p, force, updated) ==
    IF force \/ updated
    THEN /\ pc' = [pc EXCEPT ![p] = "enumerate"]
         /\ byTarget' = [byTarget EXCEPT ![p] = by_target(deliveries, DeliveryOrder)]
         /\ initialized' = [initialized EXCEPT ![p] = epochs = {} /\ epochs' # {}]
         /\ UNCHANGED lockHolders
    ELSE /\ pc' = [pc EXCEPT ![p] = "idle"]
         /\ feed_unlock(p)
         /\ UNCHANGED <<byTarget, initialized>>

\* update_all_feeds(ctx) (skipped with no_update), then the choice of the
\* deliveries to run.  no_update and force are perform_pull's arguments,
\* read here for the first time; changes is what the fetch can bring.  A
\* feed without on-disk state is cloned: its status is INITIALIZED, which
\* update_all_feeds logs, and it is not among the updated feeds.
update_all_feeds(p, changes, forces) ==
    /\ pc[p] = "update_all_feeds"
    /\ \E no_update \in BOOLEAN, force \in forces :
          \/ /\ no_update \/ epochs # {}
             /\ UNCHANGED <<epochs, repo, gen>>
             /\ AfterUpdate(p, force, FALSE)
          \/ /\ ~no_update
             /\ epochs = {}
             /\ \E ch \in Cloned :
                   /\ epochs' = ch.epochs
                   /\ repo' = ch.repo
                   /\ gen' = ch.gen
             /\ AfterUpdate(p, force, FALSE)
          \/ /\ ~no_update
             /\ epochs # {}
             /\ \E ch \in changes :
                   /\ epochs' = ch.epochs
                   /\ repo' = ch.repo
                   /\ gen' = ch.gen
             /\ AfterUpdate(p, force, TRUE)
    /\ UNCHANGED <<info, failed, rejected, deliveries, now, bozofilter, wire, ctx, tokenFile, tracking, locks, gui, target,
                   retryList, runList, consec, attemptLog>>

\* feed.update_feed() raises (lei_feed.py: "LEI update failed"): the
\* exception leaves perform_pull.
UpdateFeedError(p) ==
    /\ pc[p] = "update_all_feeds"
    /\ pc' = [pc EXCEPT ![p] = "aborted"]
    /\ UNCHANGED <<disk, env, ctx, target, lockHolders, retryList, runList, byTarget,
                   consec, initialized, attemptLog>>

\* The run_list of the next target of by_target:
\* feed.get_latest_commits_for_delivery(dname) for each delivery of the
\* target; a target without new commits is passed over.
Enumerate(p) ==
    /\ pc[p] = "enumerate"
    /\ epochs # {}
    /\ LET delivery_names == {d \in DOMAIN deliveries : deliveries[d] = Head(byTarget[p])}
           res == [d \in delivery_names |->
                     get_latest_commits_for_delivery(info[d], epochs, repo)]
           lists == [d \in Deliveries |->
                       IF d \in delivery_names
                       THEN [i \in 1..Len(res[d].commits) |-> Item(d, res[d].commits[i])]
                       ELSE <<>>]
           run_list == Concat(lists, DeliveryOrder)
       IN  /\ info' = [d \in Deliveries |->
                          IF d \in delivery_names THEN res[d].info ELSE info[d]]
           /\ runList' = [runList EXCEPT ![p] = run_list]
           /\ IF run_list = <<>> THEN NextTarget(p)
              ELSE /\ pc' = [pc EXCEPT ![p] = "delivering"]
                   /\ UNCHANGED byTarget
    /\ consec' = [consec EXCEPT ![p] = 0]
    /\ UNCHANGED <<failed, rejected, epochs, repo, env, ctx, target, lockHolders, retryList, initialized, attemptLog>>

\* git rev-list fails in get_latest_commits_in_epoch (GitError), or the
\* feed has no epoch to enumerate: the exception leaves perform_pull.
EnumerateError(p) ==
    /\ pc[p] = "enumerate"
    /\ pc' = [pc EXCEPT ![p] = "aborted"]
    /\ UNCHANGED <<disk, env, ctx, target, lockHolders, retryList, runList, byTarget,
                   consec, initialized, attemptLog>>

\* consecutive_failures that a success does not reset.
consecutive_failures_never_reset(count, msgid) ==
    IF msgid = "None" THEN count + 1 ELSE count

\* perform_pull's consecutive_failures after an iteration that returned
\* msgid: one more after None, unchanged after a bozofilter skip, zero
\* after a delivery.
consecutive_failures(count, msgid) ==
    IF msgid = "None" THEN count + 1
    ELSE IF msgid = "SKIPPED_BOZOFILTER" THEN count
    ELSE 0

\* One iteration of the delivery loop of a target.
DeliverStep(p, kinds) ==
    /\ pc[p] = "delivering"
    /\ IF consec[p] >= MaxConsecutiveFailures
       THEN /\ NextTarget(p)
            /\ UNCHANGED <<info, failed, rejected, target, runList, consec, attemptLog>>
       ELSE LET it == Head(runList[p])
            IN  /\ \E o \in Outcomes(it.d, it.epoch, it.commit, kinds) :
                      /\ deliver_commit(it.d, it.epoch, it.commit, FALSE, o)
                      /\ consec' = [consec EXCEPT ![p] =
                                       consecutive_failures(@, deliver_result(o))]
                      /\ attemptLog' = [attemptLog EXCEPT ![p] =
                                           Append(@, [d |-> it.d, epoch |-> it.epoch,
                                                      commit |-> it.commit,
                                                      result |-> deliver_result(o)])]
                /\ runList' = [runList EXCEPT ![p] = Tail(@)]
                /\ IF Tail(runList[p]) = <<>> THEN NextTarget(p)
                   ELSE UNCHANGED <<pc, byTarget>>
    /\ UNCHANGED <<epochs, repo, env, ctx, lockHolders, retryList, initialized>>

\* unlock_all_feeds(ctx) at the end of perform_pull, then
\* close_requests_session(), ctx.obj['targets'] = {} and the return.
unlock_all_feeds(p) ==
    /\ pc[p] = "unlock_all_feeds"
    /\ feed_unlock(p)
    /\ session' = [session EXCEPT ![p] = FALSE]
    /\ targets' = [targets EXCEPT ![p] = {}]
    /\ UNCHANGED feeds
    /\ pc' = [pc EXCEPT ![p] = "idle"]
    /\ attemptLog' = [attemptLog EXCEPT ![p] = <<>>]
    /\ runList' = [runList EXCEPT ![p] = <<>>]
    /\ byTarget' = [byTarget EXCEPT ![p] = <<>>]
    /\ initialized' = [initialized EXCEPT ![p] = FALSE]
    /\ consec' = [consec EXCEPT ![p] = 0]
    /\ UNCHANGED <<disk, env, target, retryList>>

\* The pull command ends with the exception: the process exits, and the
\* system drops the advisory locks it held.
ProcessExit(p) ==
    /\ pc[p] = "aborted"
    /\ pc' = [pc EXCEPT ![p] = "idle"]
    /\ lockHolders' = lockHolders \ {p}
    /\ retryList' = [retryList EXCEPT ![p] = <<>>]
    /\ runList' = [runList EXCEPT ![p] = <<>>]
    /\ byTarget' = [byTarget EXCEPT ![p] = <<>>]
    /\ initialized' = [initialized EXCEPT ![p] = FALSE]
    /\ attemptLog' = [attemptLog EXCEPT ![p] = <<>>]
    /\ consec' = [consec EXCEPT ![p] = 0]
    /\ session' = [session EXCEPT ![p] = FALSE]
    /\ targets' = [targets EXCEPT ![p] = {}]
    /\ feeds' = [feeds EXCEPT ![p] = NoFeeds]
    /\ tracker' = [tracker EXCEPT ![p] = NotLoaded]
    /\ dmap' = [dmap EXCEPT ![p] = {}]
    /\ feedOrder' = [feedOrder EXCEPT ![p] = <<>>]
    /\ UNCHANGED <<disk, deliveries, now, bozofilter, gen, wire, tokenFile, manifest, target,
                   configFile, locked, gui>>

\* gui.py run_sync: "except Exception" logs the error of perform_pull and
\* the GUI process goes on, to the next sync; nothing unlocks the feeds.
run_sync_except(p) ==
    /\ pc[p] = "aborted"
    /\ pc' = [pc EXCEPT ![p] = "idle"]
    /\ retryList' = [retryList EXCEPT ![p] = <<>>]
    /\ runList' = [runList EXCEPT ![p] = <<>>]
    /\ byTarget' = [byTarget EXCEPT ![p] = <<>>]
    /\ initialized' = [initialized EXCEPT ![p] = FALSE]
    /\ attemptLog' = [attemptLog EXCEPT ![p] = <<>>]
    /\ consec' = [consec EXCEPT ![p] = 0]
    /\ UNCHANGED <<disk, env, ctx, target, lockHolders>>

\* The process ends after the command returned (the pull command, or the
\* GUI when the user quits): what it kept in memory is gone.
Quit(p) ==
    /\ pc[p] = "idle"
    /\ p \notin lockHolders
    /\ ~Fresh(p)
    /\ session' = [session EXCEPT ![p] = FALSE]
    /\ targets' = [targets EXCEPT ![p] = {}]
    /\ feeds' = [feeds EXCEPT ![p] = NoFeeds]
    /\ tracker' = [tracker EXCEPT ![p] = NotLoaded]
    /\ dmap' = [dmap EXCEPT ![p] = {}]
    /\ feedOrder' = [feedOrder EXCEPT ![p] = <<>>]
    /\ UNCHANGED <<disk, deliveries, now, bozofilter, gen, wire, tokenFile, manifest,
                   target, lockHolders, local, configFile, locked, gui>>

\* ------------------------------------------------------------ environment
\* The instants (in days) at which the clock is read: the start, the end
\* of the retry window, and the day after it.
Instants == {0, RETRY_FAILED_INTERVAL, RETRY_FAILED_INTERVAL + 1}

\* Time passes, up to the next instant of Instants.
Tick ==
    /\ \E t \in Instants : t > now /\ now' = t
    /\ UNCHANGED <<deliveries, bozofilter, gen, wire, ctx, tokenFile, tracking, locks, gui, disk, target, lockHolders, local>>

\* The user adds an address to the bozofilter.
AddBozo(a) ==
    /\ a \notin bozofilter
    /\ bozofilter' = bozofilter \cup {a}
    /\ UNCHANGED <<deliveries, now, gen, wire, ctx, tokenFile, tracking, locks, gui, disk, target, lockHolders, local>>

\* --------------------------------------------------------- specifications
\* The failures of deliver_commit: of the feed, of the target.
Failures == {"nomsg", "fail"}

Next ==
    \/ \E p \in Procs :
          \/ StartPull(p)
          \/ lock_all_feeds(p)
          \/ retry_all_failed_deliveries(p)
          \/ RetryStep(p, Failures)
          \/ update_all_feeds(p, Appended \cup RolledOver, BOOLEAN)
          \/ UpdateFeedError(p)
          \/ Enumerate(p)
          \/ EnumerateError(p)
          \/ DeliverStep(p, Failures)
          \/ unlock_all_feeds(p)
          \/ ProcessExit(p)
          \/ run_sync_except(p)
          \/ Quit(p)
    \/ Tick
    \/ \E a \in Addresses : AddBozo(a)

Spec == Init /\ [][Next]_vars

\* The pull cycles when no pull is run with --force and deliver_commit
\* fails only when the target fails (connect or import_message raises).
NextTargetFails ==
    \/ \E p \in Procs :
          \/ StartPull(p)
          \/ lock_all_feeds(p)
          \/ retry_all_failed_deliveries(p)
          \/ RetryStep(p, {"fail"})
          \/ update_all_feeds(p, Appended \cup RolledOver, {FALSE})
          \/ UpdateFeedError(p)
          \/ Enumerate(p)
          \/ EnumerateError(p)
          \/ DeliverStep(p, {"fail"})
          \/ unlock_all_feeds(p)
          \/ ProcessExit(p)
          \/ run_sync_except(p)
    \/ Tick
    \/ \E a \in Addresses : AddBozo(a)

SpecTargetFails == Init /\ [][NextTargetFails]_vars

\* One step of the pull cycles of process p, run one after the other
\* with and without --force, while upstream appends commits and only the
\* targets fail.
PullStep(p) ==
    \/ StartPull(p)
    \/ lock_all_feeds(p)
    \/ retry_all_failed_deliveries(p)
    \/ RetryStep(p, {"fail"})
    \/ update_all_feeds(p, Appended, BOOLEAN)
    \/ Enumerate(p)
    \/ DeliverStep(p, {"fail"})
    \/ unlock_all_feeds(p)

NextRetry ==
    \/ PullStep(1)
    \/ Tick

\* The pull cycles keep running (the GUI's background worker, a timer
\* that runs kgl pull), and time passes.
SpecRetry == Init /\ [][NextRetry]_vars /\ WF_vars(PullStep(1)) /\ WF_vars(Tick)

\* What the end of a process leaves: the advisory lock is dropped and
\* nothing of what perform_pull and ctx.obj held is left.
Gone(p) ==
    /\ pc' = [pc EXCEPT ![p] = "idle"]
    /\ lockHolders' = lockHolders \ {p}
    /\ retryList' = [retryList EXCEPT ![p] = <<>>]
    /\ runList' = [runList EXCEPT ![p] = <<>>]
    /\ byTarget' = [byTarget EXCEPT ![p] = <<>>]
    /\ initialized' = [initialized EXCEPT ![p] = FALSE]
    /\ attemptLog' = [attemptLog EXCEPT ![p] = <<>>]
    /\ consec' = [consec EXCEPT ![p] = 0]
    /\ session' = [session EXCEPT ![p] = FALSE]
    /\ targets' = [targets EXCEPT ![p] = {}]
    /\ feeds' = [feeds EXCEPT ![p] = NoFeeds]
    /\ tracker' = [tracker EXCEPT ![p] = NotLoaded]
    /\ dmap' = [dmap EXCEPT ![p] = {}]
    /\ feedOrder' = [feedOrder EXCEPT ![p] = <<>>]

\* The process is killed between two steps of its pull cycle.
Kill(p) ==
    /\ pc[p] # "idle"
    /\ Gone(p)
    /\ UNCHANGED <<disk, deliveries, now, bozofilter, gen, wire, tokenFile, manifest, target,
                   configFile, locked, gui>>

\* The process is killed inside deliver_commit, after
\* target.import_message returned and before mark_successful_delivery
\* wrote the delivery state and the failed ledger.
KillAfterImport(p) ==
    /\ pc[p] \in {"retrying", "delivering"}
    /\ pc[p] = "delivering" => consec[p] < MaxConsecutiveFailures
    /\ LET it == IF pc[p] = "retrying" THEN Head(retryList[p]) ELSE Head(runList[p])
       IN  /\ "ok" \in Outcomes(it.d, it.epoch, it.commit, {})
           /\ import_message(it.d, it.epoch, it.commit)
    /\ Gone(p)
    /\ UNCHANGED <<disk, deliveries, now, bozofilter, gen, wire, tokenFile, manifest,
                   bozoSkipped, configFile, locked, gui>>

\* The process is killed inside deliver_commit's except branch, after
\* feed.mark_failed_delivery and before feed.save_delivery_info.
KillAfterMarkFailed(p) ==
    /\ pc[p] = "delivering"
    /\ consec[p] < MaxConsecutiveFailures
    /\ LET it == Head(runList[p])
           ko == mark_failed_delivery(failed[it.d], rejected[it.d], it.epoch, it.commit, now)
       IN  /\ "fail" \in Outcomes(it.d, it.epoch, it.commit, {"fail"})
           /\ failed' = [failed EXCEPT ![it.d] = ko.failed]
           /\ rejected' = [rejected EXCEPT ![it.d] = ko.rejected]
    /\ Gone(p)
    /\ UNCHANGED <<info, epochs, repo, deliveries, now, bozofilter, gen, wire, tokenFile,
                   manifest, target, configFile, locked, gui>>

\* Pull cycles of a process that can be killed at any point and is then
\* started again; only the targets fail.
NextKill ==
    \/ PullStep(1)
    \/ update_all_feeds(1, RolledOver, {FALSE})
    \/ Kill(1)
    \/ KillAfterImport(1)
    \/ KillAfterMarkFailed(1)
    \/ Tick

SpecKill == Init /\ [][NextKill]_vars

\* The pull cycles over a feed whose upstream rewrites history, within
\* the retry window and with an empty bozofilter.
NextRebase ==
    \/ \E p \in Procs :
          \/ StartPull(p)
          \/ lock_all_feeds(p)
          \/ retry_all_failed_deliveries(p)
          \/ RetryStep(p, Failures)
          \/ update_all_feeds(p, Appended \cup Rewritten, BOOLEAN)
          \/ UpdateFeedError(p)
          \/ Enumerate(p)
          \/ EnumerateError(p)
          \/ DeliverStep(p, Failures)
          \/ unlock_all_feeds(p)
          \/ ProcessExit(p)
          \/ run_sync_except(p)

SpecRebase == Init /\ [][NextRebase]_vars

\* A feed with more new commits than the delivery loop's failure
\* threshold, delivered to two targets: d1, to t1, has all of them to
\* deliver; d2, to t2, was added when two were still to come.  The
\* address of every second message is in the bozofilter.  The backlog has
\* room for five failures, a delivery among them and a commit left over.
BacklogLen == MaxConsecutiveFailures + 2

Backlog == <<FirstCommit>> \o NewCommits(2, BacklogLen, 0)

InitBacklog ==
    /\ TargetsUnused
    /\ Elsewhere
    /\ deliveries = [d \in Deliveries |-> IF d = "d1" THEN "t1" ELSE "t2"]
    /\ now = 0
    /\ bozofilter = Addresses
    /\ epochs = {0}
    /\ repo = [e \in Epochs |-> IF e = 0 THEN Backlog ELSE <<>>]
    /\ gen = 0
    /\ info = [d \in Deliveries |->
                 [e \in Epochs |->
                     IF e # 0 THEN NoInfo
                     ELSE IF d = "d1" THEN update_korgalore_info(FirstCommit)
                     ELSE update_korgalore_info(Backlog[Len(Backlog) - 2])]]
    /\ failed = [d \in Deliveries |-> <<>>]
    /\ rejected = [d \in Deliveries |-> <<>>]
    /\ lockHolders = {}
    /\ delivered = {}
    /\ dups = {}
    /\ bozoSkipped = {}
    /\ pc = [p \in Procs |-> "idle"]
    /\ retryList = [p \in Procs |-> <<>>]
    /\ runList = [p \in Procs |-> <<>>]
    /\ byTarget = [p \in Procs |-> <<>>]
    /\ initialized = [p \in Procs |-> FALSE]
    /\ consec = [p \in Procs |-> 0]
    /\ attemptLog = [p \in Procs |-> <<>>]

\* Pull cycles with --force over the backlog; only the targets fail.
NextBacklog ==
    \E p \in Procs :
        \/ StartPull(p)
        \/ lock_all_feeds(p)
        \/ retry_all_failed_deliveries(p)
        \/ RetryStep(p, {"fail"})
        \/ update_all_feeds(p, {}, {TRUE})
        \/ Enumerate(p)
        \/ DeliverStep(p, {"fail"})
        \/ unlock_all_feeds(p)

SpecBacklog == InitBacklog /\ [][NextBacklog]_vars

\* Pull cycles of one process over the backlog, with and without --force;
\* nothing new arrives upstream and only the targets fail.
NextAbandon ==
    \E p \in {1} :
        \/ StartPull(p)
        \/ lock_all_feeds(p)
        \/ retry_all_failed_deliveries(p)
        \/ RetryStep(p, {"fail"})
        \/ update_all_feeds(p, {}, BOOLEAN)
        \/ Enumerate(p)
        \/ DeliverStep(p, {"fail"})
        \/ unlock_all_feeds(p)

SpecAbandon == InitBacklog /\ [][NextAbandon]_vars

\* A feed that is configured with two deliveries and not cloned yet.
InitClone ==
    /\ TargetsUnused
    /\ Elsewhere
    /\ deliveries = [d \in Deliveries |-> "t1"]
    /\ now = 0
    /\ bozofilter = {}
    /\ epochs = {}
    /\ repo = [e \in Epochs |-> <<>>]
    /\ gen = 0
    /\ info = [d \in Deliveries |-> [e \in Epochs |-> NoInfo]]
    /\ failed = [d \in Deliveries |-> <<>>]
    /\ rejected = [d \in Deliveries |-> <<>>]
    /\ lockHolders = {}
    /\ delivered = {}
    /\ dups = {}
    /\ bozoSkipped = {}
    /\ pc = [p \in Procs |-> "idle"]
    /\ retryList = [p \in Procs |-> <<>>]
    /\ runList = [p \in Procs |-> <<>>]
    /\ byTarget = [p \in Procs |-> <<>>]
    /\ initialized = [p \in Procs |-> FALSE]
    /\ consec = [p \in Procs |-> 0]
    /\ attemptLog = [p \in Procs |-> <<>>]

\* The pull cycles from the first one, which clones the feed; only the
\* target fails.
NextClone ==
    \E p \in Procs :
        \/ StartPull(p)
        \/ lock_all_feeds(p)
        \/ retry_all_failed_deliveries(p)
        \/ RetryStep(p, {"fail"})
        \/ update_all_feeds(p, Appended, BOOLEAN)
        \/ Enumerate(p)
        \/ EnumerateError(p)
        \/ DeliverStep(p, {"fail"})
        \/ unlock_all_feeds(p)
        \/ ProcessExit(p)

SpecClone == InitClone /\ [][NextClone]_vars

\* ----------------------------------------------------------- the targets
\* The copies of one message the folder is let to hold.
MaxCopies == 2

TargetKinds == {"gmail", "imap", "maildir", "pipe"}

\* A check for existing messages that never finds one.
_check_message_exists_never(conn, id, reply) == FALSE

\* ImapTarget._check_message_exists(message_id) over the connection conn
\* (self.imap), with the answers of the
\* server to SELECT and to SEARCH HEADER Message-ID.
_check_message_exists(conn, id, reply) ==
    IF conn = "None" THEN FALSE
    ELSE IF reply.select = "error" THEN FALSE
    ELSE IF reply.select # "OK" THEN FALSE
    ELSE IF reply.search = "error" THEN FALSE
    ELSE IF reply.search # "OK" THEN FALSE
    ELSE folder[id] > 0

\* ImapTarget.connect()
connect ==
    /\ imap = "None"
    /\ imap' = "connected"
    /\ op' = [NoCall EXCEPT !.name = "connect", !.kind = "imap"]
    /\ result' = "None"
    /\ sent' = <<>>
    /\ UNCHANGED folder
    /\ UNCHANGED <<deliveries, now, bozofilter, gen, ctx, tokenFile, tracking, locks, gui, disk, target, lockHolders, local>>

\* ImapTarget.disconnect()
disconnect ==
    /\ imap # "None"
    /\ imap' = "None"
    /\ op' = [NoCall EXCEPT !.name = "disconnect", !.kind = "imap"]
    /\ result' = "None"
    /\ sent' = <<>>
    /\ UNCHANGED folder
    /\ UNCHANGED <<deliveries, now, bozofilter, gen, ctx, tokenFile, tracking, locks, gui, disk, target, lockHolders, local>>

\* ImapTarget.import_message(raw_message, labels): a target without a
\* connection connects first.
ImapTarget_import_message(raw_message, reply) ==
    LET id == FolderKey(raw_message)
        conn == IF imap = "None" THEN "connected" ELSE imap
    IN  /\ imap' = conn
        /\ IF conn # "connected"
           THEN /\ result' = "RemoteError"
                /\ sent' = <<>>
                /\ UNCHANGED folder
           ELSE IF id # NoId /\ _check_message_exists("connected", id, reply)
           THEN /\ result' = "skipped"
                /\ sent' = <<>>
                /\ UNCHANGED folder
           ELSE IF reply.append = "OK"
           THEN /\ folder[id] < MaxCopies
                /\ folder' = [folder EXCEPT ![id] = @ + 1]
                /\ sent' = as_bytes(raw_message, None, None)
                /\ result' = "data"
           ELSE /\ result' = "RemoteError"
                /\ sent' = <<>>
                /\ UNCHANGED folder

\* GmailTarget.import_message(raw_message, labels)
GmailTarget_import_message(raw_message) ==
    /\ sent' = raw_message
    /\ result' = "data"
    /\ UNCHANGED <<imap, folder>>

\* MaildirTarget.import_message and PipeTarget.import_message
\* (raw_message, labels, feed_name, delivery_name)
Local_import_message(raw_message, feed_name, delivery_name) ==
    /\ sent' = as_bytes(raw_message, feed_name, delivery_name)
    /\ result' = "data"
    /\ UNCHANGED <<imap, folder>>

\* The name of the feed, and of a delivery, as the configuration spells
\* them.
FeedName == <<Word("lkml", 4)>>
DeliveryName(d) == <<Word(d, 2)>>

\* deliver_commit hands the message of a commit to the target of the
\* delivery: target.import_message(raw_message, labels=labels).
target_import_message(d, kind, raw_message, reply) ==
    /\ op' = [name |-> "import_message", kind |-> kind, raw |-> raw_message,
              feed_name |-> FeedName, delivery_name |-> DeliveryName(d),
              reply |-> reply]
    /\ CASE kind = "imap" -> ImapTarget_import_message(raw_message, reply)
         [] kind = "gmail" -> reply = AllOK /\ GmailTarget_import_message(raw_message)
         [] OTHER -> reply = AllOK /\ Local_import_message(raw_message, None, None)
    /\ UNCHANGED <<deliveries, now, bozofilter, gen, ctx, tokenFile, tracking, locks, gui, disk, target, lockHolders, local>>

\* Someone else removes the copies of a message from the folder.
Expunge(id) ==
    /\ folder[id] > 0
    /\ folder' = [folder EXCEPT ![id] = 0]
    /\ op' = [NoCall EXCEPT !.name = "expunge", !.kind = "imap"]
    /\ result' = "None"
    /\ sent' = <<>>
    /\ UNCHANGED imap
    /\ UNCHANGED <<deliveries, now, bozofilter, gen, ctx, tokenFile, tracking, locks, gui, disk, target, lockHolders, local>>

\* The deliveries of messages to targets of every kind.
NextTargets ==
    \/ connect
    \/ disconnect
    \/ \E d \in DOMAIN deliveries, kind \in TargetKinds, raw_message \in RawMessages,
          reply \in ImapReplies :
          target_import_message(d, kind, raw_message, reply)
    \/ \E id \in MessageIds \cup {NoId} : Expunge(id)

SpecTargets == Init /\ [][NextTargets]_vars

\* ImapTarget.connect() with the answers of the server to LOGIN and to
\* SELECT.  self.imap is "None", or the connection: "unauthenticated" as
\* IMAP4_SSL() returns it, "authenticated" after LOGIN, "connected" after
\* the SELECT of the folder.  A call that raises leaves self.imap as it is.
ImapTarget_connect(login, select) ==
    /\ op' = [NoCall EXCEPT !.name = "connect", !.kind = "imap",
                            !.reply = [select |-> select, search |-> login, append |-> "OK"]]
    /\ IF imap # "None"
       THEN /\ result' = "None"
            /\ UNCHANGED imap
       ELSE IF login # "OK"
       THEN /\ imap' = "unauthenticated"
            /\ result' = "RemoteError"
       ELSE IF select # "OK"
       THEN /\ imap' = "authenticated"
            /\ result' = "ConfigurationError"
       ELSE /\ imap' = "connected"
            /\ result' = "None"
    /\ sent' = <<>>
    /\ UNCHANGED folder
    /\ UNCHANGED <<deliveries, now, bozofilter, gen, ctx, tokenFile, tracking, locks, gui, disk, target, lockHolders, local>>

\* The calls of an IMAP target whose server may refuse the login or the
\* folder.
NextConnect ==
    \/ \E login \in Replies, select \in Replies : ImapTarget_connect(login, select)
    \/ disconnect
    \/ \E d \in DOMAIN deliveries, raw_message \in {RawLF(id) : id \in MessageIds},
          reply \in ImapReplies :
          target_import_message(d, "imap", raw_message, reply)

SpecConnect == Init /\ [][NextConnect]_vars

\* The names a feed or a delivery can have: one word up to the longest
\* that still fits a line, one word too long, words with spaces between.
NameLengths == {12, 56, 64, 65, 69, 70}
Names(text) ==
    {<<Word(text, n)>> : n \in NameLengths}
        \cup {<<Word(text, 3), SP, Word(text, n)>> : n \in {4, 70}}
        \cup {<<Word(text, 3), SP, SP, Word(text, 60)>>}

\* A message that has headers only.
HeadersOnly == <<Word("From:", 5), SP, Word("a@x", 3), LF>>

\* RawMessage(raw).as_bytes(feed_name, delivery_name) is about to run.
AsBytesCalls ==
    {[name |-> "as_bytes", kind |-> "None", raw |-> raw, feed_name |-> f,
      delivery_name |-> d, reply |-> AllOK] :
        raw \in RawMessages \cup {HeadersOnly},
        f \in Names("f") \cup {None}, d \in Names("d") \cup {None}}

InitTrace ==
    /\ Configured
    /\ Elsewhere
    /\ imap = "None"
    /\ folder = [i \in MessageIds \cup {NoId} |-> 0]
    /\ op \in AsBytesCalls
    /\ result = "None"
    /\ sent = <<>>

\* RawMessage.as_bytes(feed_name, delivery_name)
RawMessage_as_bytes ==
    /\ op.name = "as_bytes"
    /\ result = "None"
    /\ sent' = as_bytes(op.raw, op.feed_name, op.delivery_name)
    /\ result' = "bytes"
    /\ UNCHANGED <<imap, folder, op>>
    /\ UNCHANGED <<deliveries, now, bozofilter, gen, ctx, tokenFile, tracking, locks, gui, disk, target, lockHolders, local>>

NextTrace == RawMessage_as_bytes

SpecTrace == InitTrace /\ [][NextTrace]_vars

\* ------------------------------------------------- two targets, one feed
\* Two deliveries of the feed, each to its own target, both initialised
\* at the tip.
InitOrder ==
    /\ TargetsUnused
    /\ Elsewhere
    /\ deliveries = [d \in Deliveries |-> IF d = "d1" THEN "t1" ELSE "t2"]
    /\ now = 0
    /\ bozofilter = {}
    /\ epochs = {0}
    /\ repo = [e \in Epochs |-> IF e = 0 THEN <<FirstCommit>> ELSE <<>>]
    /\ gen = 0
    /\ info = [d \in Deliveries |->
                 [e \in Epochs |-> IF e = 0 THEN update_korgalore_info(FirstCommit)
                                   ELSE NoInfo]]
    /\ failed = [d \in Deliveries |-> <<>>]
    /\ rejected = [d \in Deliveries |-> <<>>]
    /\ lockHolders = {}
    /\ delivered = {}
    /\ dups = {}
    /\ bozoSkipped = {}
    /\ pc = [p \in Procs |-> "idle"]
    /\ retryList = [p \in Procs |-> <<>>]
    /\ runList = [p \in Procs |-> <<>>]
    /\ byTarget = [p \in Procs |-> <<>>]
    /\ initialized = [p \in Procs |-> FALSE]
    /\ consec = [p \in Procs |-> 0]
    /\ attemptLog = [p \in Procs |-> <<>>]

\* The pull cycles over the two deliveries; only the targets fail.
NextOrder ==
    \E p \in Procs :
        \/ StartPull(p)
        \/ lock_all_feeds(p)
        \/ retry_all_failed_deliveries(p)
        \/ RetryStep(p, {"fail"})
        \/ update_all_feeds(p, Appended, BOOLEAN)
        \/ Enumerate(p)
        \/ DeliverStep(p, {"fail"})
        \/ unlock_all_feeds(p)

SpecOrder == InitOrder /\ [][NextOrder]_vars

\* -------------------------------------------------------- track-subsystem
\* The track-subsystem command for a subsystem whose search does not exist
\* yet: create_lei_query_search makes the feed directory with the commits
\* the query matches, feed.init_feed(from_start=True) writes the feed
\* state and feed.save_delivery_info(delivery_name, epoch, first_commit)
\* the delivery state.  The command takes no lock.
track_subsystem(p, d) ==
    /\ pc[p] = "idle"
    /\ epochs = {}
    /\ \E ch \in Cloned :
          /\ epochs' = ch.epochs
          /\ repo' = ch.repo
          /\ gen' = ch.gen
          /\ info' = [info EXCEPT ![d] =
                         save_delivery_info(@, ch.repo, 0, Hash(ch.repo[0][1]))]
    /\ UNCHANGED <<failed, rejected, deliveries, now, bozofilter, wire, ctx, tokenFile,
                   tracking, locks, gui, target, lockHolders, local>>

\* The pull cycles over a feed directory that track-subsystem creates, or
\* the first update.
NextTrack ==
    \E p \in Procs :
        \/ \E d \in Deliveries : track_subsystem(p, d)
        \/ StartPull(p)
        \/ lock_all_feeds(p)
        \/ retry_all_failed_deliveries(p)
        \/ RetryStep(p, {"fail"})
        \/ update_all_feeds(p, Appended, BOOLEAN)
        \/ Enumerate(p)
        \/ EnumerateError(p)
        \/ DeliverStep(p, {"fail"})
        \/ unlock_all_feeds(p)
        \/ ProcessExit(p)

SpecTrack == InitClone /\ [][NextTrack]_vars

\* The feed directory as track-subsystem leaves it: epoch 0 with the
\* messages the query matched and the state of the delivery at its first
\* commit ("from start"); the delivery is in the configuration.
InitFromStart ==
    /\ TargetsUnused
    /\ Elsewhere
    /\ deliveries = [d \in {"d1"} |-> "t1"]
    /\ now = 0
    /\ bozofilter = {}
    /\ epochs = {0}
    /\ \E k \in 1..(MaxCommits - 1) :
          repo = [e \in Epochs |-> IF e = 0 THEN NewCommits(1, k, 0) ELSE <<>>]
    /\ gen = 0
    /\ info = [d \in Deliveries |->
                 IF d = "d1"
                 THEN save_delivery_info([e \in Epochs |-> NoInfo], repo, 0, Hash(repo[0][1]))
                 ELSE [e \in Epochs |-> NoInfo]]
    /\ failed = [d \in Deliveries |-> <<>>]
    /\ rejected = [d \in Deliveries |-> <<>>]
    /\ lockHolders = {}
    /\ delivered = {}
    /\ dups = {}
    /\ bozoSkipped = {}
    /\ pc = [p \in Procs |-> "idle"]
    /\ retryList = [p \in Procs |-> <<>>]
    /\ runList = [p \in Procs |-> <<>>]
    /\ byTarget = [p \in Procs |-> <<>>]
    /\ initialized = [p \in Procs |-> FALSE]
    /\ consec = [p \in Procs |-> 0]
    /\ attemptLog = [p \in Procs |-> <<>>]

\* The pull cycles over the subsystem's delivery; only the target fails.
SpecFromStart == InitFromStart /\ [][NextClone]_vars

\* --------------------------------------------------------- tracked threads
\* tracking.py EXPIRE_DAYS, the tracked threads, and the days at which the
\* clock is read: the start, the last day a thread that got a message at
\* the start is kept active, and the day after.
EXPIRE_DAYS == 30
TrackIds == {"track-1", "track-2"}
TrackDays == {0, EXPIRE_DAYS, EXPIRE_DAYS + 1}

\* The process that pulls again and again (the GUI); the track commands
\* are processes of their own.
Gui == 1

\* TrackingManifest.add_thread: the entry of a new thread.
add_thread(day) == [status |-> "active", last_new_message |-> day]

\* Two threads are tracked, both added at the start.
InitTracking ==
    /\ TargetsUnused
    /\ FreshProcesses
    /\ Unlocked
    /\ tokenFile = NoFile
    /\ manifest = [t \in TrackIds |-> add_thread(0)]
    /\ tracker = [p \in Procs |-> NotLoaded]
    /\ dmap = [p \in Procs |-> {}]
    /\ deliveries = [d \in {} |-> "t1"]
    /\ now = 0
    /\ bozofilter = {}
    /\ epochs = {}
    /\ repo = [e \in Epochs |-> <<>>]
    /\ gen = 0
    /\ info = [d \in Deliveries |-> [e \in Epochs |-> NoInfo]]
    /\ failed = [d \in Deliveries |-> <<>>]
    /\ rejected = [d \in Deliveries |-> <<>>]
    /\ lockHolders = {}
    /\ delivered = {}
    /\ dups = {}
    /\ bozoSkipped = {}
    /\ pc = [p \in Procs |-> "idle"]
    /\ retryList = [p \in Procs |-> <<>>]
    /\ runList = [p \in Procs |-> <<>>]
    /\ byTarget = [p \in Procs |-> <<>>]
    /\ initialized = [p \in Procs |-> FALSE]
    /\ consec = [p \in Procs |-> 0]
    /\ attemptLog = [p \in Procs |-> <<>>]

\* get_tracking_manifest: the TrackingManifest ctx.obj holds, or a new one,
\* which loads tracking.json.
get_tracking_manifest(p) ==
    IF tracker[p].loaded THEN tracker[p].threads ELSE manifest

\* TrackingManifest.check_and_expire_threads: the ids to expire, and the
\* threads after it.
Expiring(threads, day) ==
    {t \in DOMAIN threads : /\ threads[t].status = "active"
                             /\ threads[t].last_new_message < day - EXPIRE_DAYS}

check_and_expire_threads(threads, day) ==
    [t \in DOMAIN threads |->
        IF t \in Expiring(threads, day) THEN [threads[t] EXCEPT !.status = "inactive"]
        ELSE threads[t]]

\* TrackingManifest.get_active_threads.
get_active_threads(threads) == {t \in DOMAIN threads : threads[t].status = "active"}

\* The instance a new LeiFeed is: one that differs from the instance
\* ctx.obj['feeds'] holds for the key.
NewInstance(fs, k) == IF k \in DOMAIN fs THEN 1 - fs[k] ELSE 0

\* perform_pull without delivery_name, up to map_tracked_threads: the
\* manifest is expired (and saved when a thread expired), and every active
\* thread gets a new LeiFeed in ctx.obj['feeds'], a target and an entry in
\* ctx.obj['deliveries'].
map_tracked_threads(p) ==
    /\ pc[p] = "idle"
    /\ LET threads == check_and_expire_threads(get_tracking_manifest(p), now)
           active == get_active_threads(threads)
       IN  /\ tracker' = [tracker EXCEPT ![p] = [loaded |-> TRUE, threads |-> threads]]
           /\ manifest' = IF Expiring(get_tracking_manifest(p), now) # {} THEN threads
                           ELSE manifest
           /\ feeds' = [feeds EXCEPT ![p] =
                           [k \in DOMAIN @ \cup active |->
                               IF k \in active THEN NewInstance(@, k) ELSE @[k]]]
           /\ targets' = [targets EXCEPT ![p] = IF active = {} THEN @ ELSE @ \cup {"t1"}]
           /\ dmap' = [dmap EXCEPT ![p] = active]
    /\ pc' = [pc EXCEPT ![p] = "lock_all_feeds"]
    /\ UNCHANGED <<disk, deliveries, now, bozofilter, gen, wire, tokenFile, locks, gui, session, target,
                   lockHolders, retryList, runList, byTarget, consec, initialized, attemptLog>>

\* lock_all_feeds over the feeds of the tracked threads, and over none.
lock_tracked_feeds(p) ==
    /\ dmap[p] # {}
    /\ lock_all_feeds(p)

lock_no_tracked_feed(p) ==
    /\ dmap[p] = {}
    /\ pc[p] = "lock_all_feeds"
    /\ pc' = [pc EXCEPT ![p] = "retry_all_failed_deliveries"]
    /\ UNCHANGED <<disk, env, ctx, target, lockHolders, retryList, runList, byTarget, consec,
                   initialized, attemptLog>>

\* The tracked threads in a sequence, as the loops go through them.
RECURSIVE InSequence(_)
InSequence(ids) ==
    IF ids = {} THEN <<>>
    ELSE LET t == CHOOSE x \in ids : \A y \in ids : x = "track-1" \/ y # "track-1"
         IN  <<t>> \o InSequence(ids \ {t})

\* perform_pull from the retry pass to the end of the delivery loops, for
\* the tracked threads: lei finds a new message for the threads of news,
\* and deliver_commit delivers it; changes counts it.
deliver_tracked(p, news) ==
    /\ pc[p] = "retry_all_failed_deliveries"
    /\ news \subseteq dmap[p]
    /\ delivered' = delivered \cup {<<t, 0, 1>> : t \in news}
    /\ attemptLog' = [attemptLog EXCEPT ![p] =
                         [i \in 1..Cardinality(news) |->
                             [d |-> InSequence(news)[i], epoch |-> 0, commit |-> 1,
                              result |-> "msgid"]]]
    /\ pc' = [pc EXCEPT ![p] = "unlock_all_feeds"]
    /\ UNCHANGED <<disk, env, ctx, dups, bozoSkipped, lockHolders, retryList, runList,
                   byTarget, consec, initialized>>

\* perform_pull's changes, as the ids of the deliveries it counts.
changes(p) == {attemptLog[p][i].d : i \in DOMAIN attemptLog[p]}

\* TrackingManifest.update_activity(track_id, new_messages) for the
\* threads of ids, all with new_messages > 0.
update_activity(threads, ids, day) ==
    [t \in DOMAIN threads |->
        IF t \in ids THEN [threads[t] EXCEPT !.last_new_message = day] ELSE threads[t]]

\* The end of perform_pull. With no feed updated: unlock_all_feeds and
\* the early return. Otherwise: unlock_all_feeds, then
\* update_tracked_thread_activity(ctx, changes), which saves the manifest
\* of the process after each thread, then close_requests_session() and
\* ctx.obj['targets'] = {}.
update_tracked_thread_activity(p) ==
    /\ pc[p] = "unlock_all_feeds"
    /\ feed_unlock(p)
    /\ LET threads == update_activity(tracker[p].threads, changes(p), now)
       IN  /\ tracker' = [tracker EXCEPT ![p].threads = threads]
           /\ manifest' = IF changes(p) # {} THEN threads ELSE manifest
    /\ session' = [session EXCEPT ![p] = IF changes(p) = {} THEN @ ELSE FALSE]
    /\ targets' = [targets EXCEPT ![p] = IF changes(p) = {} THEN @ ELSE {}]
    /\ attemptLog' = [attemptLog EXCEPT ![p] = <<>>]
    /\ pc' = [pc EXCEPT ![p] = "idle"]
    /\ UNCHANGED <<disk, deliveries, now, bozofilter, gen, wire, tokenFile, locks, gui, feeds, dmap,
                   target, retryList, runList, byTarget, consec, initialized>>

\* The track pause command, a process of its own: pause_thread and _save.
track_pause(t) ==
    /\ manifest' = [manifest EXCEPT ![t].status = "paused"]
    /\ manifest' # manifest
    /\ UNCHANGED <<disk, deliveries, now, bozofilter, gen, wire, tokenFile, locks, gui, ctx, tracker,
                   dmap, target, lockHolders, local>>

\* The track resume command, a process of its own: resume_thread and
\* _save, unless the thread is active.
track_resume(t) ==
    /\ manifest[t].status # "active"
    /\ manifest' = [manifest EXCEPT ![t] = add_thread(now)]
    /\ UNCHANGED <<disk, deliveries, now, bozofilter, gen, wire, tokenFile, locks, gui, ctx, tracker,
                   dmap, target, lockHolders, local>>

\* Time passes, up to a later day of TrackDays.
TickDays ==
    /\ \E t \in TrackDays : t > now /\ now' = t
    /\ UNCHANGED <<deliveries, bozofilter, gen, wire, ctx, tokenFile, tracking, locks, gui, disk, target,
                   lockHolders, local>>

\* The pull cycles of the GUI and of the pull command over the tracked
\* threads, and the track commands.
NextTracking ==
    \/ \E p \in {Gui} :
          \/ map_tracked_threads(p)
          \/ lock_tracked_feeds(p)
          \/ lock_no_tracked_feed(p)
          \/ \E news \in SUBSET TrackIds : deliver_tracked(p, news)
          \/ update_tracked_thread_activity(p)
          \/ Quit(p)
    \/ \E t \in TrackIds : track_pause(t) \/ track_resume(t)
    \/ TickDays

SpecTracking == InitTracking /\ [][NextTracking]_vars

\* ------------------------------------------------- cli.py lock_all_feeds
\* The feeds of the configuration, and the orders in which korgalore.toml
\* can list them.
FeedDirs == SeqToSet(ConfiguredFeeds)
FeedOrders == {s \in [1..Len(ConfiguredFeeds) -> FeedDirs] : SeqToSet(s) = FeedDirs}

\* The feeds whose lock process p holds, and the feed lock_all_feeds of p
\* locks next: the first key of ctx.obj['feeds'] it does not hold yet.
Held(p) == {k \in FeedDirs : locked[k] = p}
NextFeed(p) ==
    feedOrder[p][CHOOSE i \in 1..Len(feedOrder[p]) :
                    /\ feedOrder[p][i] \notin Held(p)
                    /\ \A j \in 1..(i - 1) : feedOrder[p][j] \in Held(p)]

\* The user edits korgalore.toml (kgl edit-config, or an editor) and puts
\* the deliveries into another order.
edit_config(order) ==
    /\ order # configFile
    /\ configFile' = order
    /\ UNCHANGED <<disk, deliveries, now, bozofilter, gen, wire, tokenFile, tracking, gui,
                   feedOrder, locked, ctx, target, lockHolders, local>>

\* perform_pull up to lock_all_feeds: map_deliveries fills ctx.obj['feeds']
\* in the order of the deliveries of the configuration the process
\* loaded.  A process that has its feeds (the GUI in a later sync) keeps
\* them.
map_feeds(p) ==
    /\ pc[p] = "idle"
    /\ feedOrder' = [feedOrder EXCEPT ![p] = IF @ = <<>> THEN configFile ELSE @]
    /\ pc' = [pc EXCEPT ![p] = "lock_all_feeds"]
    /\ UNCHANGED <<disk, deliveries, now, bozofilter, gen, wire, tokenFile, tracking, gui,
                   configFile, locked, ctx, target, lockHolders, retryList, runList, byTarget,
                   consec, initialized, attemptLog>>

\* One iteration of lock_all_feeds: feed.feed_lock() for the next key of
\* ctx.obj['feeds'], which waits while another process holds the lock of
\* the feed directory.  After the last key the cycle goes on; its steps
\* between lock_all_feeds and unlock_all_feeds lock nothing.
feed_lock_next(p) ==
    /\ pc[p] = "lock_all_feeds"
    /\ locked[NextFeed(p)] = 0
    /\ locked' = [locked EXCEPT ![NextFeed(p)] = p]
    /\ pc' = [pc EXCEPT ![p] = IF Held(p) \cup {NextFeed(p)} = FeedDirs
                               THEN "unlock_all_feeds" ELSE @]
    /\ UNCHANGED <<disk, deliveries, now, bozofilter, gen, wire, tokenFile, tracking, gui,
                   configFile, feedOrder, ctx, target, lockHolders, retryList, runList, byTarget,
                   consec, initialized, attemptLog>>

\* unlock_all_feeds at the end of the cycle.  The pull command then
\* returns and its process ends; the GUI keeps ctx.obj for the next sync.
unlock_feeds(p) ==
    /\ pc[p] = "unlock_all_feeds"
    /\ locked' = [k \in FeedDirs |-> IF locked[k] = p THEN 0 ELSE locked[k]]
    /\ feedOrder' = [feedOrder EXCEPT ![p] = IF p = Gui THEN @ ELSE <<>>]
    /\ pc' = [pc EXCEPT ![p] = "idle"]
    /\ UNCHANGED <<disk, deliveries, now, bozofilter, gen, wire, tokenFile, tracking, gui,
                   configFile, ctx, target, lockHolders, retryList, runList, byTarget,
                   consec, initialized, attemptLog>>

\* The GUI reloads the configuration (Edit Config), or is started again.
gui_reload ==
    /\ pc[Gui] = "idle"
    /\ feedOrder[Gui] # <<>>
    /\ feedOrder' = [feedOrder EXCEPT ![Gui] = <<>>]
    /\ UNCHANGED <<disk, deliveries, now, bozofilter, gen, wire, tokenFile, tracking, gui,
                   configFile, locked, ctx, target, lockHolders, local>>

\* The GUI and a pull command over the same feeds.
NextLockOrder ==
    \/ \E order \in FeedOrders : edit_config(order)
    \/ \E p \in Procs : map_feeds(p)
    \/ \E p \in Procs : feed_lock_next(p)
    \/ \E p \in Procs : unlock_feeds(p)
    \/ gui_reload

SpecLockOrder == Init /\ [][NextLockOrder]_vars

\* ------------------------------------------------------- gui.py run_sync
\* The threads of the GUI that call run_sync: the background worker, and
\* the thread on_sync_now starts.  syncThread says where each is:
\*   "idle"          not in run_sync;
\*   "run_sync"      at the start of run_sync;
\*   "checked"       after 'if self.is_syncing: return', which it passed;
\*   "perform_pull"  after 'self.is_syncing = True', in perform_pull;
\*   "finally"       perform_pull returned or raised.
SyncThreads == {"background_worker", "on_sync_now"}

\* on_sync_now: the menu item starts a thread that runs run_sync, unless
\* is_syncing is set.
on_sync_now ==
    /\ syncThread["on_sync_now"] = "idle"
    /\ ~is_syncing
    /\ syncThread' = [syncThread EXCEPT !["on_sync_now"] = "run_sync"]
    /\ UNCHANGED <<disk, deliveries, now, bozofilter, gen, wire, tokenFile, tracking, locks,
                   is_syncing, ctx, target, lockHolders, local>>

\* background_worker: when the time of the next sync has come and
\* is_syncing is not set, it calls run_sync.
background_worker ==
    /\ syncThread["background_worker"] = "idle"
    /\ ~is_syncing
    /\ syncThread' = [syncThread EXCEPT !["background_worker"] = "run_sync"]
    /\ UNCHANGED <<disk, deliveries, now, bozofilter, gen, wire, tokenFile, tracking, locks,
                   is_syncing, ctx, target, lockHolders, local>>

\* run_sync: 'if self.is_syncing: return'.
run_sync_check(t) ==
    /\ syncThread[t] = "run_sync"
    /\ syncThread' = [syncThread EXCEPT ![t] = IF is_syncing THEN "idle" ELSE "checked"]
    /\ UNCHANGED <<disk, deliveries, now, bozofilter, gen, wire, tokenFile, tracking, locks,
                   is_syncing, ctx, target, lockHolders, local>>

\* run_sync: 'self.is_syncing = True'.
run_sync_set(t) ==
    /\ syncThread[t] = "checked"
    /\ is_syncing' = TRUE
    /\ syncThread' = [syncThread EXCEPT ![t] = "perform_pull"]
    /\ UNCHANGED <<disk, deliveries, now, bozofilter, gen, wire, tokenFile, tracking, locks,
                   ctx, target, lockHolders, local>>

\* run_sync: perform_pull(self.ctx, ...) returns, having delivered a new
\* message for the tracked threads of news, or raises.
run_sync_perform_pull(t, news) ==
    /\ syncThread[t] = "perform_pull"
    /\ delivered' = delivered \cup {<<k, 0, 1>> : k \in news}
    /\ syncThread' = [syncThread EXCEPT ![t] = "finally"]
    /\ UNCHANGED <<disk, deliveries, now, bozofilter, gen, wire, tokenFile, tracking, locks,
                   is_syncing, ctx, dups, bozoSkipped, lockHolders, local>>

\* run_sync: 'finally: self.is_syncing = False'.
run_sync_finally(t) ==
    /\ syncThread[t] = "finally"
    /\ is_syncing' = FALSE
    /\ syncThread' = [syncThread EXCEPT ![t] = "idle"]
    /\ UNCHANGED <<disk, deliveries, now, bozofilter, gen, wire, tokenFile, tracking, locks,
                   ctx, target, lockHolders, local>>

\* The GUI with its two threads, over two tracked threads.
NextGui ==
    \/ on_sync_now
    \/ background_worker
    \/ \E t \in SyncThreads : run_sync_check(t)
    \/ \E t \in SyncThreads : run_sync_set(t)
    \/ \E t \in SyncThreads, news \in SUBSET TrackIds : run_sync_perform_pull(t, news)
    \/ \E t \in SyncThreads : run_sync_finally(t)

SpecGui == InitTracking /\ [][NextGui]_vars

\* ----------------------------------------------------- authentication
\* map_deliveries when get_target finds that a Gmail target needs
\* authentication (cli.py 236-241): the feed and the target are cached
\* and AuthenticationError leaves perform_pull.
get_target_needs_auth(p) ==
    /\ pc[p] = "idle"
    /\ map_deliveries(p)
    /\ pc' = [pc EXCEPT ![p] = "AuthenticationError"]
    /\ UNCHANGED <<disk, env, target, lockHolders, retryList, runList, byTarget, consec, initialized, attemptLog>>

\* gui.py run_sync: "except AuthenticationError" sets auth_needed_target
\* and shows the Authenticate item; the GUI goes on.
_show_auth_button(p) ==
    /\ pc[p] = "AuthenticationError"
    /\ pc' = [pc EXCEPT ![p] = "idle"]
    /\ UNCHANGED <<disk, env, ctx, target, lockHolders, retryList, runList, byTarget, consec, initialized, attemptLog>>

\* The syncs of the GUI (no_update=False, force=False, non-interactive)
\* when the OAuth2 token of a target cannot be refreshed: get_target or
\* target.connect() raises AuthenticationError.
NextAuth ==
    \E p \in Procs :
        \/ StartPull(p)
        \/ get_target_needs_auth(p)
        \/ _show_auth_button(p)
        \/ lock_all_feeds(p)
        \/ retry_all_failed_deliveries(p)
        \/ RetryStep(p, {"auth"})
        \/ update_all_feeds(p, Appended, {FALSE})
        \/ Enumerate(p)
        \/ DeliverStep(p, {"auth"})
        \/ unlock_all_feeds(p)

SpecAuth == Init /\ [][NextAuth]_vars

\* ------------------------------------------------------ the update pass
\* PIFeed's status bits, of which update_feed returns a bitmask.
STATUS_NOCHANGE == 0
STATUS_UPDATED == 1
STATUS_INITIALIZED == 2
Statuses == 0..3

\* status & bit, for a bit of the two above
BitAnd(status, bit) == IF (status \div bit) % 2 = 1 THEN bit ELSE 0

\* The keys of ctx.obj['feeds'], in the order of the dictionary.
FeedKeys == <<"f1", "f2", "f3">>

\* The two lists when the second test is made only if the first fails.
collect_exclusive(lists, feed_key, status) ==
    IF BitAnd(status, STATUS_UPDATED) # 0
    THEN [lists EXCEPT !.updated_feeds = Append(@, feed_key)]
    ELSE IF BitAnd(status, STATUS_INITIALIZED) # 0
    THEN [lists EXCEPT !.initialized_feeds = Append(@, feed_key)]
    ELSE lists

\* update_all_feeds, the body of its loop after status = feed.update_feed():
\* the two lists after the two tests of status.
collect(lists, feed_key, status) ==
    LET l1 == IF BitAnd(status, STATUS_UPDATED) # 0
              THEN [lists EXCEPT !.updated_feeds = Append(@, feed_key)]
              ELSE lists
    IN  IF BitAnd(status, STATUS_INITIALIZED) # 0
        THEN [l1 EXCEPT !.initialized_feeds = Append(@, feed_key)]
        ELSE l1

\* update_all_feeds is called; update_feed of each feed is about to return
\* the status op.status gives it.
InitUpdate ==
    /\ Configured
    /\ Elsewhere
    /\ imap = "None"
    /\ folder = [i \in MessageIds \cup {NoId} |-> 0]
    /\ op \in [name : {"update_all_feeds"}, status : [1..Len(FeedKeys) -> Statuses]]
    /\ result = [updated_feeds |-> <<>>, initialized_feeds |-> <<>>, done |-> 0]
    /\ sent = <<>>

\* One iteration of the loop of update_all_feeds.
update_all_feeds_loop ==
    /\ op.name = "update_all_feeds"
    /\ result.done < Len(FeedKeys)
    /\ LET i == result.done + 1
       IN  result' = [collect(result, FeedKeys[i], op.status[i]) EXCEPT !.done = i]
    /\ UNCHANGED <<imap, folder, op, sent>>
    /\ UNCHANGED <<deliveries, now, bozofilter, gen, ctx, tokenFile, tracking, locks, gui, disk, target, lockHolders, local>>

NextUpdate == update_all_feeds_loop

SpecUpdate == InitUpdate /\ [][NextUpdate]_vars

\* ----------------------------------------------------- the OAuth2 token
\* The tokens an authenticator holds, and the pieces json.dump writes a
\* token in.
Tokens == {"token1", "token2", "token3"}
TokenLen == 4

\* File modes are sets of permission bits; the umask of the process is
\* the set of bits it clears.
OwnerBits == {"ur", "uw"}
Mode666 == {"ur", "uw", "gr", "gw", "or", "ow"}
Umasks == {{"gw", "ow"}, {"ow"}, {"gr", "gw", "or", "ow"}}

\* No call of _save_token is under way.
Returned == [name |-> "None", token |-> "None", umask |-> {}]

\* A process has an authenticator and no token file yet.
InitToken ==
    /\ Configured
    /\ FreshProcesses
    /\ NoTrackedThreads
    /\ Unlocked
    /\ imap = "None"
    /\ folder = [i \in MessageIds \cup {NoId} |-> 0]
    /\ op = Returned
    /\ result = "None"
    /\ sent = <<>>
    /\ tokenFile = NoFile

\* _run_auth_flow or _refresh_token got a token and calls _save_token.
\* self._token is None: it returns at once.
_save_token(token, umask) ==
    /\ op = Returned
    /\ op' = IF token = "None" THEN Returned
              ELSE [name |-> "_save_token", token |-> token, umask |-> umask]
    /\ result' = IF token = "None" THEN "None" ELSE "open"
    /\ UNCHANGED tokenFile
    /\ UNCHANGED <<imap, folder, sent>>
    /\ UNCHANGED <<deliveries, now, bozofilter, gen, ctx, tracking, locks, gui, disk, target, lockHolders, local>>

\* open(self.token_file, 'w'): the file is created with the mode the umask
\* leaves of 0o666, or it is truncated and keeps its mode.
_save_token_open ==
    /\ op.name = "_save_token"
    /\ result = "open"
    /\ tokenFile' = [token |-> op.token, written |-> 0,
                     mode |-> IF tokenFile = NoFile THEN Mode666 \ op.umask
                              ELSE tokenFile.mode]
    /\ result' = "dump"
    /\ UNCHANGED op
    /\ UNCHANGED <<imap, folder, sent>>
    /\ UNCHANGED <<deliveries, now, bozofilter, gen, ctx, tracking, locks, gui, disk, target, lockHolders, local>>

\* json.dump(self._token.to_dict(), f, indent=2): the next piece reaches
\* the file; after the last one the file is closed.
_save_token_dump ==
    /\ op.name = "_save_token"
    /\ result = "dump"
    /\ tokenFile' = [tokenFile EXCEPT !.written = @ + 1]
    /\ result' = IF tokenFile.written + 1 = TokenLen THEN "chmod" ELSE "dump"
    /\ UNCHANGED op
    /\ UNCHANGED <<imap, folder, sent>>
    /\ UNCHANGED <<deliveries, now, bozofilter, gen, ctx, tracking, locks, gui, disk, target, lockHolders, local>>

\* os.chmod(self.token_file, 0o600), and the return.
_save_token_chmod ==
    /\ op.name = "_save_token"
    /\ result = "chmod"
    /\ tokenFile' = [tokenFile EXCEPT !.mode = OwnerBits]
    /\ result' = "None"
    /\ op' = Returned
    /\ UNCHANGED <<imap, folder, sent>>
    /\ UNCHANGED <<deliveries, now, bozofilter, gen, ctx, tracking, locks, gui, disk, target, lockHolders, local>>

NextToken ==
    \/ \E token \in Tokens \cup {"None"}, umask \in Umasks : _save_token(token, umask)
    \/ _save_token_open
    \/ _save_token_dump
    \/ _save_token_chmod

SpecToken == InitToken /\ [][NextToken]_vars

\* ================================================================ claims
\* C1: without --force, every message committed to the feed after the
\* delivery's starting cursor is imported into the target exactly once:
\* here, never more than once.
C1_NeverMoreThanOnce == dups = {}

\* The commits of delivery d on the ancestry path from the initial cursor
\* (the first commit of epoch 0; the root of a later epoch) to the current
\* cursor, in every epoch the delivery state has an entry for.
OnPath(d) ==
    {x \in KnownEpochs(info[d]) \X {Hash(c) : c \in UNION {SeqToSet(repo[e]) : e \in Epochs}} :
        /\ Pos(repo[x[1]], x[2]) > (IF x[1] = 0 THEN 1 ELSE 0)
        /\ Pos(repo[x[1]], x[2]) <= Pos(repo[x[1]], info[d][x[1]].last)}

Handled(d, x) ==
    \/ <<d, x[1], x[2]>> \in delivered
    \/ x \in SeqToSet(rejected[d])
    \/ <<d, x[1], x[2]>> \in bozoSkipped

InFailed(d, x) == EntryPos(failed[d], x[1], x[2]) # 0

\* C2 as stated: every commit on the ancestry path from the initial cursor
\* to the current cursor was delivered to the target, or is in the
\* rejected ledger, or was skipped because of the bozofilter.
C2_PathHandled ==
    \A d \in DOMAIN deliveries : \A x \in OnPath(d) : Handled(d, x)

\* C2 amended: every commit on the ancestry path from the initial cursor
\* to the current cursor was delivered, or is in the rejected ledger, or
\* was skipped because of the bozofilter, or is in the failed ledger.
C2_PathHandledOrFailed ==
    \A d \in DOMAIN deliveries : \A x \in OnPath(d) : Handled(d, x) \/ InFailed(d, x)

\* The cursor stands past a commit that was delivered and on a commit that
\* failed and waits in the failed ledger.
C2_Witness ==
    \E d \in DOMAIN deliveries : \E x \in OnPath(d), y \in OnPath(d) :
        /\ <<d, x[1], x[2]>> \in delivered
        /\ InFailed(d, y) /\ ~Handled(d, y)
        /\ info[d][y[1]].last = y[2]

\* The processes outside the section between feed_lock and feed_unlock.
Outside(p) == pc[p] \in {"idle", "lock_all_feeds"} /\ p \notin lockHolders

\* Process p takes the step.
StepOf(p) ==
    \/ pc'[p] # pc[p]
    \/ retryList'[p] # retryList[p]
    \/ runList'[p] # runList[p]

\* C3: two pull cycles running concurrently over the same feed serialize:
\* at most one process is between feed_lock and feed_unlock, and every
\* write to the feed's state files (the repositories, the delivery state,
\* the failed and the rejected ledger) is a step of the one process that
\* holds the lock, while the other process is outside that section.
C3_WritesSerialized ==
    [][/\ Cardinality(lockHolders) <= 1
       /\ disk' # disk =>
            \E p \in Procs :
                /\ lockHolders = {p}
                /\ StepOf(p)
                /\ \A q \in Procs \ {p} : Outside(q) /\ ~StepOf(q)]_vars

\* One process is in its delivery loop and has written the delivery
\* state, while the other has started a pull and waits for the lock.
C3_Witness ==
    \E p \in Procs, q \in Procs :
        /\ p # q
        /\ lockHolders = {p}
        /\ pc[p] = "delivering"
        /\ attemptLog[p] # <<>>
        /\ pc[q] = "lock_all_feeds"

\* C4: every pull cycle that has acquired the feed locks releases them
\* before it ends, on every exit path: a process whose perform_pull has
\* ended, by return or by an error, holds no lock.
C4_LocksReleasedOnEveryExit ==
    \A p \in Procs : pc[p] \in {"idle", "aborted"} => p \notin lockHolders

\* Commit a of the attempt log comes before commit b on the ancestry path
\* (the older epoch first).
Precedes(a, b) ==
    \/ a.epoch < b.epoch
    \/ /\ a.epoch = b.epoch
       /\ Pos(repo[a.epoch], a.commit) > 0
       /\ Pos(repo[a.epoch], a.commit) < Pos(repo[b.epoch], b.commit)

\* C5: within one delivery and feed, the commits are handed to the target
\* in ancestry order: of two commits attempted in the same delivery loop,
\* the one attempted first precedes the other on the ancestry path.
C5_AncestryOrder ==
    \A p \in Procs :
        \A i \in 1..Len(attemptLog[p]), j \in 1..Len(attemptLog[p]) :
            (i < j /\ attemptLog[p][i].d = attemptLog[p][j].d)
                => Precedes(attemptLog[p][i], attemptLog[p][j])

\* A delivery loop has attempted two commits of the same epoch.
C5_Witness ==
    \E p \in Procs :
        /\ Len(attemptLog[p]) >= 2
        /\ attemptLog[p][1].epoch = attemptLog[p][2].epoch

\* The run_list entries of delivery d for the commits of epoch e after
\* position k.
ItemsAfter(d, e, k) ==
    [i \in 1..(Len(repo[e]) - k) |->
        [d |-> d, epoch |-> e, commit |-> Hash(repo[e][k + i])]]

\* The commits of an attempt log, without the results.
Attempted(log) ==
    [i \in 1..Len(log) |->
        [d |-> log[i].d, epoch |-> log[i].epoch, commit |-> log[i].commit]]

\* Process p builds its run_list in this step.
EnumerateStep(p) == pc[p] = "enumerate" /\ pc'[p] \in {"delivering", "unlock_all_feeds"}

\* Process p runs one iteration of its delivery loop in this step.
AttemptStep(p) == pc[p] = "delivering" /\ Len(attemptLog'[p]) = Len(attemptLog[p]) + 1

\* The epoch of the delivery's cursor, and the feed's highest epoch.
CursorEpoch(d) == get_highest_epoch(KnownEpochs(info[d]))

\* C6: when the feed has acquired a higher epoch than the epoch N of the
\* delivery's cursor (N + 1 or beyond), the pull cycle's run list is every
\* commit of epoch N after the cursor followed by every commit of the new
\* epoch from its first commit, and the delivery loop hands them to the
\* target in that order, one per iteration; an accepted one is delivered.
C6_RolloverOrder ==
    [][\A p \in Procs, d \in DOMAIN deliveries :
        /\ (EnumerateStep(p) /\ get_highest_epoch(epochs) > CursorEpoch(d))
              => SelectSeq(runList'[p], LAMBDA it : it.d = d) =
                     ItemsAfter(d, CursorEpoch(d),
                                Pos(repo[CursorEpoch(d)], info[d][CursorEpoch(d)].last))
                     \o ItemsAfter(d, get_highest_epoch(epochs), 0)
        /\ AttemptStep(p)
              => /\ Attempted(attemptLog'[p]) \o runList'[p]
                        = Attempted(attemptLog[p]) \o runList[p]
                 /\ LET a == attemptLog'[p][Len(attemptLog'[p])]
                    IN  a.result = "msgid" => <<a.d, a.epoch, a.commit>> \in delivered']_vars

\* A delivery loop has delivered the tail of epoch 0 and then a commit of
\* epoch 2, with no epoch 1 in between.
C6_Witness ==
    \E p \in Procs :
        /\ pc[p] = "unlock_all_feeds"
        /\ Len(attemptLog[p]) >= 2
        /\ attemptLog[p][1].epoch = 0 /\ attemptLog[p][1].result = "msgid"
        /\ attemptLog[p][2].epoch = MaxEpoch /\ attemptLog[p][2].result = "msgid"
        /\ <<attemptLog[p][2].d, MaxEpoch, attemptLog[p][2].commit>> \in delivered
        /\ epochs = {0, MaxEpoch}

\* The commits of repository r that replace the commit of info record inf:
\* identical subject and Message-ID, a later commit date.
Replacements(r, inf) ==
    {i \in 1..Len(r) : /\ Subject(r[i].m) = inf.subject
                       /\ MsgId(r[i].m) = inf.msgid
                       /\ r[i].date > inf.date}

C8_FailedNotDelivered ==
    \A d \in DOMAIN deliveries : \A i \in 1..Len(failed[d]) :
        <<d, failed[d][i].epoch, failed[d][i].commit>> \notin delivered

\* The last attempt of the delivery loop of process p.
LastAttempt(p) == attemptLog[p][Len(attemptLog[p])]

\* C9: a Failed Entry exists if and only if the latest delivery attempt of
\* the commit failed and the commit has not been rejected: the commit the
\* delivery loop attempted last has a Failed Entry exactly when that
\* attempt failed without rejecting it, and no commit is in the failed and
\* the rejected ledger at once.
C9_EntryIffLatestAttemptFailed ==
    /\ \A p \in Procs :
          (pc[p] \in {"delivering", "unlock_all_feeds"} /\ attemptLog[p] # <<>>)
            => LET a == LastAttempt(p)
                   x == <<a.epoch, a.commit>>
               IN  InFailed(a.d, x)
                     <=> (a.result = "None" /\ x \notin SeqToSet(rejected[a.d]))
    /\ \A d \in DOMAIN deliveries : \A x \in SeqToSet(rejected[d]) : ~InFailed(d, x)

\* The target imports the message of commit x of delivery d in this step.
Imported(d, x) ==
    \/ <<d, x[1], x[2]>> \in delivered' \ delivered
    \/ <<d, x[1], x[2]>> \in dups' \ dups

\* C10: if the delivery of a commit failed in one pull cycle and the
\* target accepts it in a later pull cycle within 5 days of the first
\* failure, then the commit leaves the failed ledger and the delivery
\* cursor is set to that commit.
C10_AcceptedRetryClearsEntry ==
    [][\A d \in DOMAIN deliveries : \A i \in 1..Len(failed[d]) :
        LET x == <<failed[d][i].epoch, failed[d][i].commit>>
        IN  (Imported(d, x) /\ now - failed[d][i].first <= RETRY_FAILED_INTERVAL)
              => /\ ~(\E j \in 1..Len(failed'[d]) :
                        <<failed'[d][j].epoch, failed'[d][j].commit>> = x)
                 /\ info'[d][x[1]].last = x[2]]_vars

\* The entry of a failed ledger is older than the retry window.
Expired(entry) == now - entry.first > RETRY_FAILED_INTERVAL

\* C11: a failed entry whose first_failure is older than the 5-day retry
\* window is not attempted against the target again, even if the target
\* would now succeed, and neither is a commit of the rejected ledger: no
\* step imports the message of an expired entry or of a rejected commit.
C11_ExpiredNeverAttempted ==
    [][\A d \in DOMAIN deliveries :
        /\ \A i \in 1..Len(failed[d]) :
              Expired(failed[d][i])
                => ~Imported(d, <<failed[d][i].epoch, failed[d][i].commit>>)
        /\ \A x \in SeqToSet(rejected[d]) : ~Imported(d, x)]_vars

LoopAttempts(p) ==
    SelectSeq(attemptLog[p], LAMBDA a : deliveries[a.d] = Head(byTarget[p]))

\* How many delivery attempts at the end of an attempt log failed in a row,
\* with no delivery in between.  A bozofilter skip hands nothing to the
\* target: it is no delivery attempt.
RECURSIVE FailedInARow(_)
FailedInARow(log) ==
    IF log = <<>> THEN 0
    ELSE LET a == log[Len(log)]
             front == SubSeq(log, 1, Len(log) - 1)
         IN  IF a.result = "msgid" THEN 0
             ELSE IF a.result = "None" THEN 1 + FailedInARow(front)
             ELSE FailedInARow(front)

\* Process p leaves the delivery loop of its target with commits of the
\* run list not attempted.
Abandons(p) ==
    /\ pc[p] = "delivering" /\ pc'[p] # "delivering"
    /\ runList[p] # <<>>
    /\ attemptLog'[p] = attemptLog[p]

\* C13: in the delivery loop of one target the remaining commits are
\* abandoned exactly when five delivery attempts in a row have failed with
\* no successful delivery in between; the pull cycle then goes on with the
\* next target of by_target, whose run list is built and attempted.
C13_AbandonAfterFiveFailures ==
    [][\A p \in Procs :
        (pc[p] = "delivering" /\ StepOf(p))
          => /\ Abandons(p) <=> FailedInARow(LoopAttempts(p)) >= MaxConsecutiveFailures
             /\ (Abandons(p) /\ Tail(byTarget[p]) # <<>>)
                  => /\ pc'[p] = "enumerate"
                     /\ byTarget'[p] = Tail(byTarget[p])]_vars

\* The loop of target t1 was abandoned after five failures in a row, its
\* last commit not attempted, and the same cycle has then delivered a
\* commit of d2 to target t2.
C13_Witness ==
    \E p \in Procs :
        /\ Len(attemptLog[p]) = MaxConsecutiveFailures + 1
        /\ \A i \in 1..MaxConsecutiveFailures :
              attemptLog[p][i].d = "d1" /\ attemptLog[p][i].result = "None"
        /\ LastAttempt(p).d = "d2" /\ LastAttempt(p).result = "msgid"
        /\ <<"d2", LastAttempt(p).epoch, LastAttempt(p).commit>> \in delivered
        /\ delivered \cap {<<"d1", 0, Hash(Backlog[i])>> : i \in 1..Len(Backlog)} = {}
        /\ EntryPos(failed["d1"], 0, Hash(Backlog[Len(Backlog)])) = 0
        /\ <<"d1", 0, Hash(Backlog[Len(Backlog)])>> \notin delivered

\* The address of the sender of message m, in lower case.
SenderOf(m) == IF m % 2 = 0 THEN "troll" ELSE "dev"

\* Process p calls deliver_commit in this step, in the retry pass or in
\* the delivery loop; the (delivery, epoch, commit) it is called for.
Attempts(p) ==
    /\ StepOf(p)
    /\ \/ pc[p] = "retrying"
       \/ pc[p] = "delivering" /\ ~Abandons(p)

AttemptedItem(p) == IF pc[p] = "retrying" THEN Head(retryList[p]) ELSE Head(runList[p])

\* The call of deliver_commit by process p for commit x of delivery d ends
\* in its except branch: the delivery loop gets None; in the retry pass
\* the entry of the commit counts one more failure or moves to the
\* rejected ledger.
Raised(p, d, x) ==
    IF pc[p] = "delivering"
    THEN attemptLog'[p][Len(attemptLog'[p])].result = "None"
    ELSE \/ Len(rejected'[d]) > Len(rejected[d])
         \/ /\ EntryPos(failed'[d], x[1], x[2]) # 0
            /\ failed'[d][EntryPos(failed'[d], x[1], x[2])].count
                   > failed[d][EntryPos(failed[d], x[1], x[2])].count

C15_NoMessageNotMarked ==
    [][\A p \in Procs :
        (/\ AttemptStep(p)
         /\ attemptLog'[p][Len(attemptLog'[p])].result = "None"
         /\ info'[Head(runList[p]).d][Head(runList[p]).epoch].last # Head(runList[p]).commit)
          => failed' = failed /\ rejected' = rejected]_vars

\* Delivery d has a delivery state file.
HasState(d) == KnownEpochs(info[d]) # {}

\* C16: when update_feed reports INITIALIZED for a feed in a pull cycle,
\* the cycle writes a tip-initialized delivery state for every delivery
\* bound to that feed: once the feed is cloned and no pull cycle is
\* running, every delivery of the feed has a delivery state.
C16_InitializedFeedGetsDeliveryState ==
    (epochs # {} /\ \A p \in Procs : pc[p] = "idle")
        => \A d \in DOMAIN deliveries : HasState(d)

\* C17: a pull cycle initializes the state of a delivery only if the
\* delivery's feed was reported INITIALIZED in this cycle: a step of
\* process p that creates a delivery state is a step of the cycle whose
\* feed update cloned the feed.
C17_InitOnlyForInitializedFeed ==
    [][\A d \in DOMAIN deliveries :
        (~HasState(d) /\ KnownEpochs(info'[d]) # {})
          => \E p \in Procs :
                /\ StepOf(p)
                /\ initialized[p] \/ (epochs = {} /\ epochs' # {})]_vars

\* In this step deliver_commit hands to an IMAP target a message whose
\* Message-ID the folder holds.
ImapImportOfExisting ==
    /\ op'.name = "import_message"
    /\ op'.kind = "imap"
    /\ FolderKey(op'.raw) # NoId
    /\ folder[FolderKey(op'.raw)] > 0

\* C18: importing into an IMAP target a message whose Message-ID already
\* exists in the target folder returns the skipped sentinel and issues no
\* APPEND, so that no second copy is created.
C18_ExistingNeverAppended ==
    [][ImapImportOfExisting
          => (result' = "skipped" /\ folder' = folder /\ sent' = <<>>)]_vars

\* C18, as the code has it: the same when the server answers OK to the
\* SELECT and to the SEARCH of the check; a failed check lets the APPEND
\* proceed.
C18_FoundNeverAppended ==
    [][(ImapImportOfExisting /\ op'.reply.select = "OK" /\ op'.reply.search = "OK")
          => (result' = "skipped" /\ folder' = folder /\ sent' = <<>>)]_vars

\* A message the folder holds was imported again and skipped.
C18_Witness ==
    /\ op.name = "import_message"
    /\ op.kind = "imap"
    /\ result = "skipped"
    /\ folder[FolderKey(op.raw)] = 1

\* Every LF of b follows a CR, and every CR is followed by a LF.
IsCRLF(b) ==
    \A i \in 1..Len(b) :
        /\ b[i] = LF => (i > 1 /\ b[i - 1] = CR)
        /\ b[i] = CR => (i < Len(b) /\ b[i + 1] = LF)

\* The bytes sub occur in b.
Contains(b, sub) ==
    \E i \in 1..(Len(b) - Len(sub) + 1) : SubSeq(b, i, i + Len(sub) - 1) = sub

\* b has an X-Korgalore-Trace header that names the feed and the delivery.
HasTrace(b, feed_name, delivery_name) ==
    /\ Contains(b, <<LF>> \o TraceName \o <<Colon>>)
    /\ Contains(b, <<Word("feed=", 5)>> \o feed_name)
    /\ Contains(b, <<Word("delivery=", 9)>> \o delivery_name)

\* C19: every message that deliver_commit hands to a target, whatever the
\* kind of the target, is transmitted CRLF-normalized and with an
\* X-Korgalore-Trace header that names the feed and the delivery.
C19_TransmittedNormalizedAndTraced ==
    (op.name = "import_message" /\ result = "data")
        => /\ IsCRLF(sent)
           /\ HasTrace(sent, op.feed_name, op.delivery_name)

\* The physical lines of the trace header of b: the line of the header
\* name and the continuation lines that follow it.
PhysicalLines(b) == split(CollapseCRLF(b), LF)
TraceStart(b) ==
    LET lines == PhysicalLines(b)
        at == {i \in 1..Len(lines) :
                  Len(lines[i]) >= 1 /\ lines[i][1] = TraceName[1]}
    IN  IF at = {} THEN 0 ELSE CHOOSE i \in at : \A j \in at : i <= j
RECURSIVE Continuations(_)
Continuations(lines) ==
    IF lines = <<>> \/ Head(lines) = <<>> \/ Head(lines)[1] # SP THEN <<>>
    ELSE <<Head(lines)>> \o Continuations(Tail(lines))
ContinuationLines(b) ==
    LET lines == PhysicalLines(b)
    IN  Continuations(SubSeq(lines, TraceStart(b) + 1, Len(lines)))
TraceLines(b) == <<PhysicalLines(b)[TraceStart(b)]>> \o ContinuationLines(b)

\* C20: for every feed name and delivery name, the injected trace header
\* is folded so that no physical line of it exceeds 75 characters, and
\* every continuation line begins with a single space.
C20_TraceFolded ==
    (result = "bytes" /\ op.feed_name # None /\ op.delivery_name # None)
        => /\ TraceStart(sent) # 0
           /\ \A i \in 1..Len(TraceLines(sent)) : len(TraceLines(sent)[i]) <= MaxLine
           /\ \A i \in 1..Len(ContinuationLines(sent)) :
                 LET line == ContinuationLines(sent)[i]
                 IN  Len(line) >= 2 /\ line[2] # SP

Returns(p) ==
    /\ pc[p] \in {"update_all_feeds", "unlock_all_feeds"}
    /\ pc'[p] = "idle"

\* C30: every pull cycle, on every path on which it returns (the path
\* where no delivery has to run included), ends with the shared HTTP
\* session closed and the target instance cache empty.
C30_ReturnsClosedAndCleared ==
    [][\A p \in Procs :
          Returns(p) => ~session'[p] /\ targets'[p] = {}]_vars

\* The return at the end of perform_pull does close and clear.
C30_EndClosesAndClears ==
    [][\A p \in Procs :
          pc[p] = "unlock_all_feeds" /\ pc'[p] = "idle"
              => ~session'[p] /\ targets'[p] = {}]_vars

\* The feeds update_all_feeds has gone through, and the keys of a list.
Queried == {i \in 1..Len(FeedKeys) : i <= result.done}
KeysOf(list) == {list[i] : i \in DOMAIN list}

\* C29: in the feed update pass, the set of feed keys whose status
\* indicates UPDATED and the set whose status indicates INITIALIZED are
\* disjoint: no feed key is in both.
C29_UpdatedInitializedDisjoint ==
    KeysOf(result.updated_feeds) \cap KeysOf(result.initialized_feeds) = {}

\* C29, amended: a key is collected as UPDATED exactly when its status has
\* the UPDATED bit and as INITIALIZED exactly when it has the INITIALIZED
\* bit, so the keys in both lists are those whose status has both bits.
C29_CollectedByBit ==
    /\ KeysOf(result.updated_feeds) =
          {FeedKeys[i] : i \in {j \in Queried : op.status[j] \in {1, 3}}}
    /\ KeysOf(result.initialized_feeds) =
          {FeedKeys[i] : i \in {j \in Queried : op.status[j] \in {2, 3}}}
    /\ KeysOf(result.updated_feeds) \cap KeysOf(result.initialized_feeds) =
          {FeedKeys[i] : i \in {j \in Queried : op.status[j] = 3}}

C29_Witness ==
    /\ result.done = Len(FeedKeys)
    /\ op.status = <<3, 1, 2>>
    /\ result.updated_feeds = <<"f1", "f2">>
    /\ result.initialized_feeds = <<"f1", "f3">>

\* C23: OAuth2 token files are written atomically with owner-only
\* permissions: at no instant does the token file exist under its final
\* name with partial content or with permissions wider than owner
\* read/write.
C23_TokenFileWholeAndOwnerOnly ==
    tokenFile # NoFile =>
        /\ tokenFile.written = TokenLen
        /\ tokenFile.mode \subseteq OwnerBits

\* When _save_token is not under way, the file it wrote is whole and
\* owner-only.
C23_WholeAndOwnerOnlyAfterReturn ==
    (tokenFile # NoFile /\ op = Returned) =>
        /\ tokenFile.written = TokenLen
        /\ tokenFile.mode = OwnerBits

\* C25: an authentication error raised by a target during a pull cycle is
\* surfaced to the caller of the pull cycle, so that the GUI exposes its
\* re-authenticate action; it is not absorbed as an ordinary per-commit
\* delivery failure.  Under SpecAuth every exception of deliver_commit is
\* the AuthenticationError of target.connect().
C25_AuthErrorSurfaced ==
    [][\A p \in Procs :
          Attempts(p) =>
              LET it == AttemptedItem(p)
              IN  Raised(p, it.d, <<it.epoch, it.commit>>)
                      => /\ pc'[p] = "AuthenticationError"
                         /\ failed' = failed
                         /\ rejected' = rejected]_vars

\* The AuthenticationError of get_target does reach run_sync.
C25_GetTargetErrorSurfaced ==
    [][\A p \in Procs :
          pc[p] = "AuthenticationError" => pc'[p] \in {"AuthenticationError", "idle"}]_vars

\* The states of a feed across one pull cycle, in the order the claim
\* gives them.
LOCKED == "LOCKED"
UPDATED == "UPDATED"
RETRIES_APPLIED == "RETRIES_APPLIED"
NEW_COMMITS_ENUMERATED == "NEW_COMMITS_ENUMERATED"
DELIVERIES_RUN == "DELIVERIES_RUN"
STATE_PERSISTED == "STATE_PERSISTED"
UNLOCKED == "UNLOCKED"
ClaimedOrder == <<LOCKED, UPDATED, RETRIES_APPLIED, NEW_COMMITS_ENUMERATED,
                  DELIVERIES_RUN, STATE_PERSISTED, UNLOCKED>>
FeedStates == {ClaimedOrder[i] : i \in DOMAIN ClaimedOrder}
Rank(s) == CHOOSE i \in DOMAIN ClaimedOrder : ClaimedOrder[i] = s

\* The step is one of the pull cycle of process p and the feed enters
\* state s with it: the lock is taken; the fetch changes the feed; the
\* retry pass ends; the new commits of a target are enumerated; the
\* delivery loop of a target ends; a state file of a delivery changes;
\* the lock is released.
Enters(p, s) ==
    /\ StepOf(p)
    /\ CASE s = LOCKED -> p \notin lockHolders /\ p \in lockHolders'
         [] s = UPDATED -> pc[p] = "update_all_feeds" /\ <<epochs, repo>>' # <<epochs, repo>>
         [] s = RETRIES_APPLIED -> /\ pc[p] \in {"retry_all_failed_deliveries", "retrying"}
                                   /\ pc'[p] = "update_all_feeds"
         [] s = NEW_COMMITS_ENUMERATED -> pc[p] = "enumerate"
         [] s = DELIVERIES_RUN -> pc[p] = "delivering" /\ pc'[p] # "delivering"
         [] s = STATE_PERSISTED -> <<info, failed, rejected>>' # <<info, failed, rejected>>
         [] s = UNLOCKED -> p \in lockHolders /\ p \notin lockHolders'

\* States the feed has entered for certain in the cycle of p, and states
\* it may have entered, given where p is.
Past(p) ==
    CASE pc[p] \in {"retry_all_failed_deliveries", "retrying"} -> {LOCKED}
      [] pc[p] \in {"update_all_feeds", "enumerate"} -> {LOCKED, RETRIES_APPLIED}
      [] pc[p] \in {"delivering", "unlock_all_feeds"} ->
            {LOCKED, RETRIES_APPLIED, NEW_COMMITS_ENUMERATED}
      [] OTHER -> {}

Maybe(p) ==
    CASE pc[p] \in {"retry_all_failed_deliveries", "retrying"} -> {LOCKED, STATE_PERSISTED}
      [] pc[p] = "update_all_feeds" -> {LOCKED, STATE_PERSISTED, RETRIES_APPLIED}
      [] pc[p] \in {"enumerate", "delivering", "unlock_all_feeds"} ->
            FeedStates \ {UNLOCKED}
      [] OTHER -> {}

\* Past and Maybe bound what the cycle of p has been through: a step of
\* the cycle adds to Past only states entered with it, and everything
\* entered so far stays in Maybe, until the cycle ends.
BoundsHistory(p) ==
    StepOf(p) =>
        /\ Past(p)' \subseteq Past(p) \cup {s \in FeedStates : Enters(p, s)}
        /\ pc'[p] # "idle" =>
               Maybe(p) \cup {s \in FeedStates : Enters(p, s)} \subseteq Maybe(p)'

\* C26: across one pull cycle every feed passes through its states in
\* this order: LOCKED, then (optionally) UPDATED, then RETRIES_APPLIED,
\* then NEW_COMMITS_ENUMERATED, then DELIVERIES_RUN, then STATE_PERSISTED,
\* then UNLOCKED; no state is entered before its predecessor in this
\* sequence, that is, after a state that comes later in it.
C26_StatesInClaimedOrder ==
    [][\A p \in Procs : \A s \in FeedStates :
          Enters(p, s) => \A t \in Past(p) : Rank(t) <= Rank(s)]_vars

\* The order perform_pull follows: LOCKED, RETRIES_APPLIED, (optionally)
\* UPDATED, then for each target NEW_COMMITS_ENUMERATED and
\* DELIVERIES_RUN, then UNLOCKED; STATE_PERSISTED is entered with the
\* attempts of the retry pass and of the delivery loops and with the
\* enumeration, between LOCKED and UNLOCKED.
Stage(s) ==
    CASE s = LOCKED -> 1
      [] s = RETRIES_APPLIED -> 2
      [] s = UPDATED -> 3
      [] s \in {NEW_COMMITS_ENUMERATED, DELIVERIES_RUN} -> 4
      [] s = UNLOCKED -> 5

\* t entered before s is in keeping with that order.
InOrder(t, s) ==
    IF STATE_PERSISTED \in {t, s} THEN t # UNLOCKED /\ s # LOCKED
    ELSE Stage(t) <= Stage(s) /\ (Stage(t) = Stage(s) => t = s \/ Stage(s) = 4)

\* The states that must have been entered before s is.
Required(s) ==
    CASE s = LOCKED -> {}
      [] s \in {RETRIES_APPLIED, STATE_PERSISTED} -> {LOCKED}
      [] s \in {UPDATED, NEW_COMMITS_ENUMERATED, UNLOCKED} -> {LOCKED, RETRIES_APPLIED}
      [] s = DELIVERIES_RUN -> {LOCKED, RETRIES_APPLIED, NEW_COMMITS_ENUMERATED}

\* C26, amended: the states are entered in the order of perform_pull.
C26_StatesInOrderOfPull ==
    [][\A p \in Procs :
          /\ BoundsHistory(p)
          /\ \A s \in FeedStates :
                Enters(p, s) => /\ \A t \in Maybe(p) : InOrder(t, s)
                                /\ Required(s) \subseteq Past(p)]_vars

\* The second target's commits are being delivered after the first
\* target's delivery loop ended, in a cycle whose fetch brought commits.
C26_Witness ==
    \E p \in Procs :
        /\ pc[p] = "delivering"
        /\ attemptLog[p] # <<>>
        /\ attemptLog[p][1].d = "d1"
        /\ Head(runList[p]).d = "d2"
        /\ failed["d1"] # <<>>
        /\ Len(repo[0]) = MaxCommits

\* C27: every mutation of a feed's on-disk state (feed state, delivery
\* state, failed and rejected ledgers) made by any command of the program
\* happens while the mutating process holds that feed's lock.
C27_MutationsUnderLock ==
    [][disk' # disk => \E p \in Procs : p \in lockHolders /\ StepOf(p)]_vars

\* The mutations of the pull cycle are made under the lock.
C27_PullMutatesUnderLock ==
    [][\A p \in Procs :
          StepOf(p) /\ disk' # disk => p \in lockHolders]_vars

\* The step of a pull cycle in which map_tracked_threads runs.
Maps(p) == pc[p] = "idle" /\ pc'[p] = "lock_all_feeds" /\ tracker'[p].loaded

\* C22: in every pull cycle, a tracking entry whose status in the manifest
\* is inactive or paused is not mapped into the delivery map.
C22_OnlyActiveMapped ==
    [][\A p \in Procs : Maps(p) =>
          \A t \in dmap'[p] : manifest[t].status = "active"]_vars

\* The first pull cycle of a process, which loads the manifest, maps the
\* entries that are active and not expired, and only them.
C22_FirstCycleMapsActive ==
    [][\A p \in Procs : Maps(p) /\ ~tracker[p].loaded =>
          dmap'[p] = get_active_threads(manifest) \ Expiring(manifest, now)]_vars

\* The status the claim gives an entry after the next pull cycle.
StatusAfterCycle(thread, day) ==
    IF thread.status = "active" /\ thread.last_new_message < day - EXPIRE_DAYS
    THEN "inactive"
    ELSE thread.status

\* C21: a pull cycle marks inactive the active entries of the manifest
\* without a new message for 30 days, and leaves the status of the active
\* entries with a newer message, and of the paused entries, as it is.
C21_ExpiresAfterThirtyDays ==
    [][\A p \in Procs : Maps(p) =>
          \A t \in TrackIds : manifest'[t].status = StatusAfterCycle(manifest[t], now)]_vars

\* The first pull cycle of a process does so.
C21_FirstCycleExpires ==
    [][\A p \in Procs : Maps(p) /\ ~tracker[p].loaded =>
          \A t \in TrackIds : manifest'[t].status = StatusAfterCycle(manifest[t], now)]_vars

\* C28: the feed instance a process holds for a feed key stays the same
\* one, for the feeds of tracked threads and from one pull cycle to the
\* next, so that a feed directory is locked through one instance only.
C28_OneInstancePerKey ==
    [][\A p \in Procs : \A k \in DOMAIN feeds[p] \cap DOMAIN feeds'[p] :
          feeds'[p][k] = feeds[p][k]]_vars

\* At any one time ctx.obj['feeds'] holds the instance of the last cycle
\* that mapped the thread, threads that are mapped no more included.
C28_MappedThreadsHaveFeeds ==
    \A p \in Procs : dmap[p] \subseteq DOMAIN feeds[p]

\* Where the cursor of delivery d in epoch e is on the branch after the
\* step, and before it.
CursorPos(d, e) == Pos(repo[e], info[d][e].last)
CursorPosAfter(d, e) == Pos(repo'[e], info'[d][e].last)

\* C31: within an epoch, the cursor of a delivery never moves backward
\* along the ancestry path; a successful retry of an older failed commit
\* does not set it back.
C31_CursorNeverBackward ==
    [][\A d \in Deliveries, e \in Epochs :
          info[d][e] # NoInfo => CursorPosAfter(d, e) >= CursorPos(d, e)]_vars

\* The steps of the delivery loop (was_failing=False) and of the
\* enumeration move no cursor backward.
C31_LoopNeverBackward ==
    [][\A p \in Procs : pc[p] \in {"enumerate", "delivering"} /\ StepOf(p) =>
          \A d \in Deliveries, e \in Epochs :
              info[d][e] # NoInfo => CursorPosAfter(d, e) >= CursorPos(d, e)]_vars

\* The (epoch, commit) pairs of delivery d in a run list.
PairsOf(run_list, d) ==
    {<<run_list[i].epoch, run_list[i].commit>> :
        i \in {j \in 1..Len(run_list) : run_list[j].d = d}}

\* C32: when more than one new epoch has appeared since the epoch of the
\* delivery's cursor, the enumeration returns the commits of every higher
\* epoch: no commit of an intermediate epoch is left out.
C32_EveryHigherEpochEnumerated ==
    [][\A p \in Procs : EnumerateStep(p) =>
          \A d \in {x \in DOMAIN deliveries : deliveries[x] = Head(byTarget[p])} :
              KnownEpochs(info[d]) # {} =>
                  \A e \in {x \in epochs : x > CursorEpoch(d)} :
                      \A i \in 1..Len(repo[e]) :
                          <<e, Hash(repo[e][i])>> \in PairsOf(runList'[p], d)]_vars

\* The commits of the highest epoch are all returned.
C32_HighestEpochEnumerated ==
    [][\A p \in Procs : EnumerateStep(p) =>
          \A d \in {x \in DOMAIN deliveries : deliveries[x] = Head(byTarget[p])} :
              KnownEpochs(info[d]) # {} =>
                  \A e \in {x \in epochs : x > CursorEpoch(d) /\ x = get_highest_epoch(epochs)} :
                      \A i \in 1..Len(repo[e]) :
                          <<e, Hash(repo[e][i])>> \in PairsOf(runList'[p], d)]_vars

\* C33: when a delivery is initialized from start, its cursor at the
\* first commit of the working epoch, the following pull enumerates, and
\* so delivers, every commit already in the epoch, the first commit too.
C33_FromStartDeliversAll ==
    [][\A p \in Procs : EnumerateStep(p) /\ delivered = {} /\ failed["d1"] = <<>> =>
          \A i \in 1..Len(repo[0]) :
              <<0, Hash(repo[0][i])>> \in PairsOf(runList'[p], "d1")]_vars

\* Every commit of the epoch but the first one is enumerated.
C33_FromStartDeliversAllButFirst ==
    [][\A p \in Procs : EnumerateStep(p) /\ delivered = {} /\ failed["d1"] = <<>> =>
          \A i \in 2..Len(repo[0]) :
              <<0, Hash(repo[0][i])>> \in PairsOf(runList'[p], "d1")]_vars

\* No pull delivers the first commit.
C33_FirstCommitNeverDelivered ==
    \A x \in delivered : x[3] # Hash(repo[0][1])

\* C40: whenever connect() on an IMAP target returns without raising, the
\* target holds an authenticated connection with the folder verified, also
\* when an earlier connect() failed during login or folder selection.
C40_ConnectReturnsConnected ==
    [][op'.name = "connect" /\ result' = "None" => imap' = "connected"]_vars

\* The part that holds: a connect() on a target without a connection
\* returns normally only with the folder verified.
C40_FirstConnectReturnsConnected ==
    [][op'.name = "connect" /\ result' = "None" /\ imap = "None" => imap' = "connected"]_vars

\* A connect() returned normally on a connection that never logged in.
C40_ReturnedOnLeftover ==
    op.name = "connect" /\ result = "None" /\ imap = "unauthenticated"

\* A message was handed to a connection whose login or folder failed.
C40_ImportOnLeftover ==
    op.name = "import_message" /\ imap \in {"unauthenticated", "authenticated"}
        /\ result = "RemoteError"
\* A step of a pull cycle changes the status of thread t in tracking.json
\* only by expiring it.
KeepsStatus(t) ==
    \/ manifest'[t].status = manifest[t].status
    \/ t \in Expiring(manifest, now) /\ manifest'[t].status = "inactive"

\* C39: changes to the tracking manifest are not lost under concurrency:
\* after one process paused or resumed a tracked thread, the manifest a
\* pulling process saves from its in-memory copy (activity, expiry) still
\* holds that change.
C39_ManifestChangesKept ==
    [][\A p \in Procs : pc'[p] # pc[p] => \A t \in TrackIds : KeepsStatus(t)]_vars

\* The part that holds: a save from a copy that equals the file keeps
\* every status but those it expires.
C39_FreshCopyKeepsChanges ==
    [][\A p \in Procs : pc'[p] # pc[p] /\ get_tracking_manifest(p) = manifest
            => \A t \in TrackIds : KeepsStatus(t)]_vars

\* The threads of the GUI that are in perform_pull.
Pulling == {t \in DOMAIN syncThread : syncThread[t] = "perform_pull"}

\* C38: in the GUI process at most one pull cycle executes at any time,
\* under every interleaving of the background worker thread and the thread
\* of "Sync Now".
C38_OnePullAtATime == Cardinality(Pulling) <= 1

\* The part that holds: a thread goes on to perform_pull only from a
\* check that found is_syncing unset.
C38_ChecksBeforePull ==
    [][\A t \in DOMAIN syncThread :
          syncThread'[t] = "checked" /\ syncThread[t] # "checked" => ~is_syncing]_vars

\* A thread is in perform_pull while is_syncing is unset: the other
\* thread's finally cleared it.
C38_PullingUnflagged == Pulling # {} /\ ~is_syncing

\* Process p is in lock_all_feeds and waits for a lock another process
\* holds.
Waiting(p) == pc[p] = "lock_all_feeds" /\ feedOrder[p] # <<>> /\ locked[NextFeed(p)] \notin {0, p}

\* C34: two pull cycles running concurrently in different processes, each
\* needing the locks of the same feeds, never deadlock: never does each
\* of them wait for a lock the other holds.
C34_NoDeadlock == ~(\A p \in Procs : Waiting(p))

\* The part that holds: processes whose ctx.obj['feeds'] have the same
\* order never wait for each other.
C34_SameOrderNoDeadlock ==
    (\A p, q \in Procs : feedOrder[p] = feedOrder[q]) => ~(\A p \in Procs : Waiting(p))

\* Two processes hold locks while their orders agree, and the one waits.
C34_WaitsInSameOrder ==
    /\ \A p, q \in Procs : feedOrder[p] = feedOrder[q]
    /\ \E p \in Procs : Waiting(p)

\* The commits of epoch 0 that are ahead of the cursor of delivery d and
\* are in none of its records: not delivered, not skipped, not in the
\* failed and not in the rejected ledger.
Unattempted(d) ==
    {<<0, Hash(repo[0][i])>> : i \in (CursorPos(d, 0) + 1)..Len(repo[0])}
        \ {x \in {<<0, Hash(repo[0][i])>> : i \in 1..Len(repo[0])} :
              Handled(d, x) \/ InFailed(d, x)}

\* Commit x is ahead of the cursor of delivery d after the step.
AheadAfter(d, x) == Pos(repo'[x[1]], x[2]) > CursorPosAfter(d, x[1])

\* Delivery d was attempted before: a commit of it is in one of its
\* records.
Started(d) ==
    \/ failed[d] # <<>> \/ rejected[d] # <<>>
    \/ \E x \in delivered \cup bozoSkipped : x[1] = d

\* The commits process p leaves in its run list when it abandons the loop.
Left(p) == {<<runList[p][i].d, <<runList[p][i].epoch, runList[p][i].commit>>>> :
               i \in 1..Len(runList[p])}

C36_LeftWaiting ==
    /\ \A p \in Procs : pc[p] = "idle"
    /\ Len(failed["d1"]) >= MaxConsecutiveFailures
    /\ Unattempted("d1") # {}

\* The commits a failed ledger can hold while the feed has one epoch.
Pairs == {<<0, <<m, 0>>>> : m \in 1..MaxCommits}

C37_RetryStepSettles ==
    [][\A p \in {1} :
        (pc[p] = "retrying" /\ retryList'[p] # retryList[p])
          => LET it == Head(retryList[p])
                 i == EntryPos(failed[it.d], it.epoch, it.commit)
                 j == EntryPos(failed'[it.d], it.epoch, it.commit)
             IN  \/ i = 0
                 \/ j = 0 /\ rejected'[it.d] = rejected[it.d]
                 \/ j = 0 /\ <<it.epoch, it.commit>> \in SeqToSet(rejected'[it.d])
                          /\ now - failed[it.d][i].first > RETRY_FAILED_INTERVAL
                 \/ j # 0 /\ failed'[it.d][j].count = failed[it.d][i].count + 1
                          /\ now - failed[it.d][i].first <= RETRY_FAILED_INTERVAL]_vars

Kept(d, x) ==
    \/ Handled(d, x) \/ InFailed(d, x)
    \/ x = <<0, Hash(FirstCommit)>>
    \/ x \in SeqToSet(get_latest_commits_for_delivery(info[d], epochs, repo).commits)

\* C35: if the process is killed at any point of a pull cycle, then after
\* restart no commit is permanently skipped: every commit not recorded as
\* delivered, failed or rejected is still enumerated by a later pull.
C35_NoCommitSkipped ==
    \A d \in DOMAIN deliveries : \A e \in epochs : \A i \in 1..Len(repo[e]) :
        Kept(d, <<e, Hash(repo[e][i])>>)

\* The part that holds: no commit of the epoch of the cursor or of the
\* highest epoch is skipped.
C35_NoCommitSkippedInTwoEpochs ==
    \A d \in DOMAIN deliveries :
        \A e \in {CursorEpoch(d), get_highest_epoch(epochs)} : \A i \in 1..Len(repo[e]) :
            Kept(d, <<e, Hash(repo[e][i])>>)

\* The target holds a message whose delivery no record shows: the process
\* was killed after import_message, and the commit is enumerated again.
C35_ImportedUnrecorded ==
    \E x \in delivered :
        /\ ~InFailed(x[1], <<x[2], x[3]>>)
        /\ Pos(repo[x[2]], x[3]) > CursorPos(x[1], x[2])
        /\ \A p \in Procs : pc[p] = "idle"
====
